---- MODULE Spec2Model ----
(***************************************************************************)
(* A model of the YouTube Automator backend: the token file and the        *)
(* credential chain (youtube_service.py, auth.py), the upload and          *)
(* validation handlers (backend/routes/upload.py), the playlist handlers   *)
(* (playlists.py) and the metadata synthesis handler                       *)
(* (backend/routes/metadata.py).                                           *)
(*                                                                         *)
(* Every HTTP handler is one action.  The action draws the request and the *)
(* outcome of every external or local call the handler makes (OAuth        *)
(* provider, video host, language model, file system) from small sets and  *)
(* computes the response the code computes.  The variable resp holds what  *)
(* the last handler returned together with what it did: the external calls *)
(* it issued, the get_youtube_service call it made, and what it left on    *)
(* disk.                                                                   *)
(*                                                                         *)
(* Text is a sequence of one-character strings, so that rsplit, lower,     *)
(* strip and split are computed, not assumed.                              *)
(***************************************************************************)
EXTENDS Integers, Sequences, FiniteSets, TLC

VARIABLES tokenFile, now, session, resp, inflight

vars == <<tokenFile, now, session, resp, inflight>>

(***************************************************************************)
(* Bounds of the model.                                                    *)
(***************************************************************************)
\* The clock runs from 0 to MaxTime.
MaxTime == 2
\* The OAuth provider grants access tokens that live 1..MaxLifetime ticks.
MaxLifetime == 1
\* A resumable upload reports at most MaxChunks intermediate chunks.
MaxChunks == 1
\* The video host answers a list request with at most MaxPages pages.
MaxPages == 3
\* The longest text handed to the tag parsers
MaxTagLen == 4

(***************************************************************************)
(* The token file (Credential Store).                                      *)
(*   kind    "absent": no file; "corrupt": a file that                     *)
(*           Credentials.from_authorized_user_file cannot load;            *)
(*           "cred": a file that loads                                     *)
(*   token   the access token is present                                   *)
(*   expiry  <<>> (none) or <<t>>                                          *)
(*   refresh a refresh token is present                                    *)
(***************************************************************************)
AbsentFile == [kind |-> "absent", token |-> FALSE, expiry |-> <<>>, refresh |-> FALSE]

CorruptFile == [kind |-> "corrupt", token |-> FALSE, expiry |-> <<>>, refresh |-> FALSE]

CredFile(tok, exp, ref) == [kind |-> "cred", token |-> tok, expiry |-> exp, refresh |-> ref]

\* google.oauth2.credentials.Credentials.expired, read at time t
Expired(c, t) == c.expiry # <<>> /\ t >= c.expiry[1]

\* google.oauth2.credentials.Credentials.valid, read at time t
Valid(c, t) == c.token /\ ~Expired(c, t)

\* os.path.exists(token_path)
Exists(file) == file.kind # "absent"

\* The files a deployment can start with: none, an unreadable one, and
\* credentials left by an earlier run.
InitialFiles ==
    {AbsentFile, CorruptFile}
        \cup {CredFile(TRUE, <<1>>, r) : r \in BOOLEAN}
        \cup {CredFile(FALSE, <<>>, FALSE), CredFile(TRUE, <<>>, TRUE)}

(***************************************************************************)
(* What a handler returned and did.                                        *)
(***************************************************************************)
NoGys == [called |-> FALSE, result |-> "none", loaded |-> "none",
          refreshed |-> FALSE, wrote |-> FALSE]

Idle == [op |-> "none", status |-> 0, escaped |-> FALSE,
         body |-> [kind |-> "none"], calls |-> <<>>, gys |-> NoGys,
         tempDir |-> FALSE, tempFile |-> FALSE, inp |-> [kind |-> "none"],
         exc |-> "none"]

\* In the sequential specifications one worker serves one request at a
\* time, and no request is in flight beside it.
NoRequests == <<>>

\* The worker is free: no response is being returned.
WorkerFree == resp = Idle

\* An external call: the API called and its arguments.
Call(api, arg) == [api |-> api, arg |-> arg]

(***************************************************************************)
(* get_youtube_service (youtube_service.py).  env holds the outcome of     *)
(* each call the function makes:                                           *)
(*   refresh  "ok" | "fail"      creds.refresh(Request())                  *)
(*   lifetime 1..MaxLifetime     the lifetime of the refreshed token       *)
(*   write    "ok" | "open_fails" | "write_fails"   the save of the file   *)
(*   build    "ok" | "fail"      build('youtube', 'v3', ...)               *)
(* The result: the handle ("client") or None ("none"), the token file      *)
(* afterwards, and the calls issued to the OAuth provider.                 *)
(***************************************************************************)
GysEnvs == [refresh : {"ok", "fail"}, lifetime : 1..MaxLifetime,
            write : {"ok", "open_fails", "write_fails"}, build : {"ok", "fail"}]

\* creds.refresh(Request()) succeeded at time t: a fresh access token
Refreshed(c, t, env) == CredFile(TRUE, <<t + env.lifetime>>, c.refresh)

\* A save that never reaches the disk: the refreshed credential stays in
\* memory (the mutant against which C3 is checked).
WriteTokenFile_NotSaved(file, creds, outcome) == file

\* A save that rewrites a file but never creates one (the mutant against
\* which C27 is checked).
WriteTokenFile_ExistingOnly(file, creds, outcome) ==
    IF outcome = "ok" /\ file.kind # "absent" THEN creds
    ELSE IF outcome = "write_fails" /\ file.kind # "absent" THEN CorruptFile
    ELSE file

\* with open(token_path, 'w') as f: f.write(creds.to_json())
\* open(.., 'w') truncates: a failing write leaves an unloadable file.
WriteTokenFile(file, creds, outcome) ==
    CASE outcome = "ok" -> creds
      [] outcome = "open_fails" -> file
      [] OTHER -> CorruptFile

GysReturn(result, file, calls, loaded, refreshed, wrote) ==
    [result |-> result, file |-> file, calls |-> calls,
     gys |-> [called |-> TRUE, result |-> result, loaded |-> loaded,
              refreshed |-> refreshed, wrote |-> wrote]]

\* What the load of the token file found.
Loaded(file, t) ==
    CASE file.kind = "absent" -> "absent"
      [] file.kind = "corrupt" -> "unloadable"
      [] Valid(file, t) -> "valid"
      [] Expired(file, t) /\ file.refresh -> "expired_refreshable"
      [] Expired(file, t) -> "expired_no_refresh"
      [] OTHER -> "no_token"

\* build('youtube', 'v3', credentials=creds) returns the handle or raises.
BuildService(env) == IF env.build = "ok" THEN "client" ELSE "raises"

\* get_youtube_service without the `creds.refresh_token` test of line 38:
\* every expired credential is refreshed (the mutant against which C1 is
\* checked).
GysBody_RefreshWithoutToken(file, t, env) ==
    LET loaded == Loaded(file, t) IN
    IF file.kind # "cred"
    THEN GysReturn("none", file, <<>>, loaded, FALSE, FALSE)
    ELSE IF Valid(file, t)
    THEN GysReturn(BuildService(env), file, <<>>, loaded, FALSE, FALSE)
    ELSE IF Expired(file, t)
    THEN LET calls == <<Call("oauth.refresh", <<>>)>>
             creds == Refreshed(file, t, env)
         IN  IF env.refresh = "fail" \/ env.write # "ok"
             THEN GysReturn("none", file, calls, loaded, FALSE, FALSE)
             ELSE GysReturn(BuildService(env), creds, calls, loaded, TRUE, TRUE)
    ELSE GysReturn("none", file, <<>>, loaded, FALSE, FALSE)

\* The body of get_youtube_service inside its outer try (lines 17-54).  The
\* load and the refresh have their own handlers, which return None.
GysBody(file, t, env) ==
    LET loaded == Loaded(file, t) IN
    IF Exists(file) /\ file.kind = "corrupt"
    THEN GysReturn("none", file, <<>>, loaded, FALSE, FALSE)
    ELSE IF ~Exists(file)
    THEN GysReturn("none", file, <<>>, loaded, FALSE, FALSE)
    ELSE IF Valid(file, t)
    THEN GysReturn(BuildService(env), file, <<>>, loaded, FALSE, FALSE)
    ELSE IF Expired(file, t) /\ file.refresh
    THEN LET calls == <<Call("oauth.refresh", <<>>)>> IN
         IF env.refresh = "fail"
         THEN GysReturn("none", file, calls, loaded, FALSE, FALSE)
         ELSE LET creds == Refreshed(file, t, env)
                  after == WriteTokenFile(file, creds, env.write)
              IN  IF env.write # "ok"
                  THEN GysReturn("none", after, calls, loaded, TRUE, FALSE)
                  ELSE GysReturn(BuildService(env), after, calls, loaded, TRUE, TRUE)
    ELSE GysReturn("none", file, <<>>, loaded, FALSE, FALSE)

\* get_youtube_service: the outer `except Exception` (lines 56-58) turns
\* whatever the body raises into None.
get_youtube_service(file, t, env) ==
    LET r == GysBody(file, t, env) IN
    IF r.result = "raises"
    THEN [r EXCEPT !.result = "none", !.gys.result = "none"]
    ELSE r

(***************************************************************************)
(* Responses.                                                              *)
(***************************************************************************)
\* jsonify({'error': msg}), status: the early returns of the handlers
ErrorBody(msg) == [kind |-> "error", error |-> msg]

\* A handler returned `body` with `status`.
Respond(op, status, body, inp) ==
    [Idle EXCEPT !.op = op, !.status = status, !.body = body, !.inp = inp]

\* The handler called get_youtube_service (result g) and went on to issue
\* `calls` to the video host.
RespondWith(op, status, body, inp, g, calls) ==
    [Idle EXCEPT !.op = op, !.status = status, !.body = body, !.inp = inp,
                 !.gys = g.gys, !.calls = g.calls \o calls]

\* The texts an unexpected exception can carry (str(e)): what failed, and
\* where.
ExceptionTexts == {"[Errno 28] No space left on device",
                   "[Errno 13] Permission denied: '/srv/app/token.json'"}

\* The response was built by an `except Exception as e` clause that puts
\* str(e) into the body.
Raised(r) == "error" \in DOMAIN r.body /\ r.body.error = "str(e)"

\* jsonify({'error': str(e), ...}): the body holds the text of the exception
\* that was caught; exc records that text.
StrE(r, text) ==
    IF Raised(r) THEN [r EXCEPT !.body.error = text, !.exc = text] ELSE r

\* The handler returns r, built for one of the texts the exception it caught
\* can carry.
Answer(r) ==
    \E text \in IF Raised(r) THEN ExceptionTexts ELSE {"none"} :
        resp' = StrE(r, text)

\* A handler without the `if not youtube` test: the first use of None raises
\* and the handler's `except Exception` answers 500 (the mutant against which
\* C2 is checked).
AuthRequired_Unchecked(op, inp, g) ==
    RespondWith(op, 500, ErrorBody("str(e)"), inp, g, <<>>)

\* return jsonify({'error': 'YouTube authentication required'}), 401
AuthRequired(op, inp, g) ==
    RespondWith(op, 401, ErrorBody("YouTube authentication required"), inp, g, <<>>)

(***************************************************************************)
(* auth.py                                                                 *)
(***************************************************************************)
\* An auth_status that takes a credential it could refresh for a valid one
\* (the mutant against which C28 is checked).
AuthStatus_CountsRefreshable ==
    /\ WorkerFree
    /\ UNCHANGED inflight
    /\ resp' =
         IF ~Exists(tokenFile)
         THEN Respond("auth_status", 200,
                      [kind |-> "status", authenticated |-> FALSE,
                       message |-> "No token file found"], [kind |-> "none"])
         ELSE IF tokenFile.kind = "corrupt"
         THEN Respond("auth_status", 500,
                      [kind |-> "status", authenticated |-> FALSE,
                       message |-> "Error checking authentication"], [kind |-> "none"])
         ELSE IF ~Valid(tokenFile, now) /\ ~tokenFile.refresh
         THEN Respond("auth_status", 200,
                      [kind |-> "status", authenticated |-> FALSE,
                       message |-> "Invalid or expired credentials"], [kind |-> "none"])
         ELSE Respond("auth_status", 200,
                      [kind |-> "status", authenticated |-> TRUE,
                       message |-> "User is authenticated",
                       expires_at |-> tokenFile.expiry], [kind |-> "none"])
    /\ UNCHANGED <<tokenFile, now, session>>

\* An auth_status without the os.path.exists test: the load of a file that
\* is not there raises, and the except clause answers 500 (the mutant
\* against which C19 is checked).
AuthStatus_LoadsUnchecked ==
    /\ WorkerFree
    /\ UNCHANGED inflight
    /\ resp' =
         IF tokenFile.kind # "cred"
         THEN Respond("auth_status", 500,
                      [kind |-> "status", authenticated |-> FALSE,
                       message |-> "Error checking authentication"], [kind |-> "none"])
         ELSE Respond("auth_status", 200,
                      [kind |-> "status", authenticated |-> Valid(tokenFile, now),
                       message |-> "n/a"], [kind |-> "none"])
    /\ UNCHANGED <<tokenFile, now, session>>

\* GET /api/auth/status
AuthStatus ==
    /\ WorkerFree
    /\ UNCHANGED inflight
    /\ resp' =
         IF ~Exists(tokenFile)
         THEN Respond("auth_status", 200,
                      [kind |-> "status", authenticated |-> FALSE,
                       message |-> "No token file found"], [kind |-> "none"])
         ELSE IF tokenFile.kind = "corrupt"
         THEN Respond("auth_status", 500,
                      [kind |-> "status", authenticated |-> FALSE,
                       message |-> "Error checking authentication"], [kind |-> "none"])
         ELSE IF ~Valid(tokenFile, now)
         THEN Respond("auth_status", 200,
                      [kind |-> "status", authenticated |-> FALSE,
                       message |-> "Invalid or expired credentials"], [kind |-> "none"])
         ELSE Respond("auth_status", 200,
                      [kind |-> "status", authenticated |-> TRUE,
                       message |-> "User is authenticated",
                       expires_at |-> tokenFile.expiry], [kind |-> "none"])
    /\ UNCHANGED <<tokenFile, now, session>>

\* GET /api/auth/login: flow is the outcome of Flow.from_client_secrets_file
\* and flow.authorization_url
Login ==
    /\ WorkerFree
    /\ UNCHANGED inflight
    /\ \E flow \in {"ok", "fail"} :
        /\ IF flow = "ok"
           THEN /\ session' = TRUE
                /\ resp' = Respond("login", 200, [kind |-> "success"],
                                   [kind |-> "login", flow |-> flow])
           ELSE /\ session' = session
                /\ Answer(Respond("login", 500, ErrorBody("str(e)"),
                                  [kind |-> "login", flow |-> flow]))
        /\ UNCHANGED <<tokenFile, now>>

\* A callback that does not look for oauth_state in the session (the mutant
\* against which C26 is checked).
Callback_AnySession ==
    /\ WorkerFree
    /\ UNCHANGED inflight
    /\ \E life \in 1..MaxLifetime, refresh \in BOOLEAN :
        /\ resp' = [Respond("callback", 200, [kind |-> "html_success"],
                            [kind |-> "callback", fetch |-> "ok", write |-> "ok"])
                       EXCEPT !.calls = <<Call("oauth.fetch_token", <<>>)>>]
        /\ tokenFile' = CredFile(TRUE, <<now + life>>, refresh)
        /\ session' = FALSE
    /\ UNCHANGED now

\* GET /api/auth/callback
\*   fetch    the outcome of the token exchange (flow.fetch_token)
\*   refresh  whether the provider granted a refresh token
\*   write    the outcome of the save of the token file
Callback ==
    /\ WorkerFree
    /\ UNCHANGED inflight
    /\ \E fetch \in {"ok", "fail"}, life \in 1..MaxLifetime, refresh \in BOOLEAN,
       write \in {"ok", "open_fails", "write_fails"} :
        LET inp == [kind |-> "callback", fetch |-> fetch, write |-> write]
            creds == CredFile(TRUE, <<now + life>>, refresh)
        IN  /\ IF ~session
               THEN /\ resp' = Respond("callback", 400,
                                       ErrorBody("Invalid session state"), inp)
                    /\ UNCHANGED <<tokenFile, session>>
               ELSE IF fetch = "fail"
               THEN /\ Answer([Respond("callback", 500, ErrorBody("str(e)"), inp)
                                   EXCEPT !.calls = <<Call("oauth.fetch_token", <<>>)>>])
                    /\ UNCHANGED <<tokenFile, session>>
               ELSE IF write # "ok"
               THEN /\ Answer([Respond("callback", 500, ErrorBody("str(e)"), inp)
                                   EXCEPT !.calls = <<Call("oauth.fetch_token", <<>>)>>])
                    /\ tokenFile' = WriteTokenFile(tokenFile, creds, write)
                    /\ UNCHANGED session
               ELSE /\ resp' = [Respond("callback", 200, [kind |-> "html_success"], inp)
                                   EXCEPT !.calls = <<Call("oauth.fetch_token", <<>>)>>]
                    /\ tokenFile' = creds
                    /\ session' = FALSE
            /\ UNCHANGED now

\* A logout that clears the session and leaves the token file where it is
\* (the mutant against which C18 is checked).
Logout_SessionOnly ==
    /\ WorkerFree
    /\ UNCHANGED inflight
    /\ session' = FALSE
    /\ resp' = Respond("logout", 200, [kind |-> "success"],
                       [kind |-> "logout", remove |-> "n/a",
                        existed |-> Exists(tokenFile)])
    /\ UNCHANGED <<tokenFile, now>>

\* POST /api/auth/logout: remove is the outcome of os.remove(token_path)
Logout ==
    /\ WorkerFree
    /\ UNCHANGED inflight
    /\ \E remove \in {"ok", "fail"} :
        LET inp == [kind |-> "logout", remove |-> remove,
                    existed |-> Exists(tokenFile)] IN
        /\ IF Exists(tokenFile) /\ remove = "fail"
           THEN /\ Answer(Respond("logout", 500, ErrorBody("str(e)"), inp))
                /\ UNCHANGED <<tokenFile, session>>
           ELSE /\ tokenFile' = AbsentFile
                /\ session' = FALSE
                /\ resp' = Respond("logout", 200, [kind |-> "success"], inp)
        /\ UNCHANGED now

\* A health endpoint that reports on the stored credential: unhealthy
\* unless a valid credential is there (the mutant against which C21 is
\* checked).
HealthCheck_OfCredential ==
    /\ WorkerFree
    /\ UNCHANGED inflight
    /\ resp' = IF tokenFile.kind = "cred" /\ Valid(tokenFile, now)
               THEN Respond("health", 200, [kind |-> "health", status |-> "healthy"],
                            [kind |-> "none"])
               ELSE Respond("health", 503, [kind |-> "health", status |-> "unhealthy"],
                            [kind |-> "none"])
    /\ UNCHANGED <<tokenFile, now, session>>

\* GET /api/health (app.py)
HealthCheck ==
    /\ WorkerFree
    /\ UNCHANGED inflight
    /\ resp' = Respond("health", 200, [kind |-> "health", status |-> "healthy"],
                       [kind |-> "none"])
    /\ UNCHANGED <<tokenFile, now, session>>

\* Time passes.
Tick ==
    /\ WorkerFree
    /\ UNCHANGED inflight
    /\ now < MaxTime
    /\ now' = now + 1
    /\ resp' = Idle
    /\ UNCHANGED <<tokenFile, session>>

(***************************************************************************)
(* JSON request bodies (request.get_json()).                               *)
(*   kind "raises"   get_json raises (not JSON, wrong content type)        *)
(*        "null"     get_json returns None                                 *)
(*        "nondict"  a non-empty JSON value that is no object              *)
(*        "dict"     an object: keys, and the value of each key            *)
(***************************************************************************)
None == "<None>"

\* A test that takes the empty string for a value (the mutant against which
\* C25 is checked).
Falsy_NoneOnly(v) == v = None

\* Python truthiness of an optional string
Falsy(v) == v = None \/ v = ""

\* dict.get(k, default)
Get(d, k, default) == IF k \in d.keys THEN d[k] ELSE default

\* `not data`
NoData(json) == json.kind = "null" \/ (json.kind = "dict" /\ json.data.keys = {})

JsonOther(d) == {[kind |-> k, data |-> d] : k \in {"raises", "null", "nondict"}}

(***************************************************************************)
(* playlists.py                                                            *)
(***************************************************************************)
\* A handler returns r and leaves the token file as `file`.
Return(r, file) ==
    /\ Answer(r)
    /\ tokenFile' = file
    /\ UNCHANGED <<now, session>>

\* The outcome of one call to the video host: it answers, it rejects the
\* call (HttpError), or the call fails otherwise (transport, malformed answer).
HostOutcomes == {"ok", "http_error", "other_error"}

\* except HttpError: 400; except Exception: 500 (the playlist handlers)
HostFailure(op, inp, g, calls, outcome) ==
    IF outcome = "http_error"
    THEN RespondWith(op, 400, ErrorBody("YouTube API error: str(e)"), inp, g, calls)
    ELSE RespondWith(op, 500, ErrorBody("str(e)"), inp, g, calls)

NoCreateData == [keys |-> {}, title |-> "", privacy_status |-> "private"]

CreateDicts ==
    {d \in [keys : SUBSET {"title", "privacy_status"}, title : {"", "T"},
            privacy_status : {"private", "public", "unlisted", "weird", None}] :
        /\ "title" \notin d.keys => d.title = ""
        /\ "privacy_status" \notin d.keys => d.privacy_status = "private"}

CreateBodies == JsonOther(NoCreateData) \cup {[kind |-> "dict", data |-> d] : d \in CreateDicts}

\* A privacy status handed on as supplied (the mutant against which C13 is
\* checked).
CoercePrivacy_AsSupplied(p) == p

\* valid_privacy = ['private', 'public', 'unlisted'] (lines 89-92)
CoercePrivacy(p) == IF p \in {"private", "public", "unlisted"} THEN p ELSE "private"

\* POST /api/playlists/
CreatePlaylist ==
    /\ WorkerFree
    /\ UNCHANGED inflight
    /\ \E json \in CreateBodies :
        LET op == "create_playlist"
            inp == [kind |-> op, json |-> json, host |-> "n/a"]
        IN
        IF json.kind = "raises"
        THEN Return(Respond(op, 500, ErrorBody("str(e)"), inp), tokenFile)
        ELSE IF NoData(json)
        THEN Return(Respond(op, 400, ErrorBody("No data provided"), inp), tokenFile)
        ELSE IF json.kind = "nondict"
        THEN Return(Respond(op, 500, ErrorBody("str(e)"), inp), tokenFile)
        ELSE IF Falsy(Get(json.data, "title", None))
        THEN Return(Respond(op, 400, ErrorBody("Playlist title is required"), inp), tokenFile)
        ELSE
          LET title == Get(json.data, "title", None)
              privacy == CoercePrivacy(Get(json.data, "privacy_status", "private"))
          IN
          \E env \in GysEnvs :
            LET g == get_youtube_service(tokenFile, now, env) IN
            IF g.result = "raises"
            THEN Return(RespondWith(op, 500, ErrorBody("str(e)"), inp, g, <<>>), g.file)
            ELSE IF g.result = "none"
            THEN Return(AuthRequired(op, inp, g), g.file)
            ELSE
              \E host \in HostOutcomes :
                LET calls == <<Call("playlists.insert", <<title, privacy>>)>>
                    inp2 == [inp EXCEPT !.host = host]
                IN
                IF host = "ok"
                THEN Return(RespondWith(op, 200,
                              [kind |-> "success", title |-> title,
                               privacy_status |-> privacy], inp2, g, calls), g.file)
                ELSE Return(HostFailure(op, inp2, g, calls, host), g.file)

NoAddData == [keys |-> {}, video_id |-> ""]

AddBodies ==
    JsonOther(NoAddData)
        \cup {[kind |-> "dict", data |-> NoAddData]}
        \cup {[kind |-> "dict", data |-> [keys |-> {"video_id"}, video_id |-> v]] :
                v \in {"", "V1"}}

\* The playlist id of the URL.
PlaylistIds == {"PL1"}

\* POST /api/playlists/<playlist_id>/videos
AddVideoToPlaylist ==
    /\ WorkerFree
    /\ UNCHANGED inflight
    /\ \E json \in AddBodies, playlist_id \in PlaylistIds :
        LET op == "add_video_to_playlist"
            inp == [kind |-> op, json |-> json, host |-> "n/a"]
        IN
        IF json.kind = "raises"
        THEN Return(Respond(op, 500, ErrorBody("str(e)"), inp), tokenFile)
        ELSE IF NoData(json)
        THEN Return(Respond(op, 400, ErrorBody("No data provided"), inp), tokenFile)
        ELSE IF json.kind = "nondict"
        THEN Return(Respond(op, 500, ErrorBody("str(e)"), inp), tokenFile)
        ELSE IF Falsy(Get(json.data, "video_id", None))
        THEN Return(Respond(op, 400, ErrorBody("Video ID is required"), inp), tokenFile)
        ELSE
          LET video_id == Get(json.data, "video_id", None) IN
          \E env \in GysEnvs :
            LET g == get_youtube_service(tokenFile, now, env) IN
            IF g.result = "raises"
            THEN Return(RespondWith(op, 500, ErrorBody("str(e)"), inp, g, <<>>), g.file)
            ELSE IF g.result = "none"
            THEN Return(AuthRequired(op, inp, g), g.file)
            ELSE
              \E host \in HostOutcomes :
                LET calls == <<Call("playlistItems.insert", <<playlist_id, video_id>>)>>
                    inp2 == [inp EXCEPT !.host = host]
                IN
                IF host = "ok"
                THEN Return(RespondWith(op, 200,
                              [kind |-> "success", video_id |-> video_id,
                               playlist_id |-> playlist_id], inp2, g, calls), g.file)
                ELSE Return(HostFailure(op, inp2, g, calls, host), g.file)

\* DELETE /api/playlists/<playlist_id>
DeletePlaylist ==
    /\ WorkerFree
    /\ UNCHANGED inflight
    /\ \E playlist_id \in PlaylistIds, env \in GysEnvs :
        LET op == "delete_playlist"
            inp == [kind |-> op, host |-> "n/a"]
            g == get_youtube_service(tokenFile, now, env)
        IN
        IF g.result = "raises"
        THEN Return(RespondWith(op, 500, ErrorBody("str(e)"), inp, g, <<>>), g.file)
        ELSE IF g.result = "none"
        THEN Return(AuthRequired(op, inp, g), g.file)
        ELSE
          \E host \in HostOutcomes :
            LET calls == <<Call("playlists.delete", <<playlist_id>>)>>
                inp2 == [inp EXCEPT !.host = host]
            IN
            IF host = "ok"
            THEN Return(RespondWith(op, 200,
                          [kind |-> "success", playlist_id |-> playlist_id],
                          inp2, g, calls), g.file)
            ELSE Return(HostFailure(op, inp2, g, calls, host), g.file)

(***************************************************************************)
(* Paginated lists.  The video host holds a finite sequence of pages; page *)
(* i holds counts[i] items, and every page but the last carries the token  *)
(* of the next page.  A page token is <<>> (none) or <<i>>, the page it    *)
(* names.  The request for page failAt (0: none) fails with failKind.      *)
(***************************************************************************)
ItemCounts == {0, 2}

RECURSIVE SeqsOver(_, _)
\* The sequences of length n over the set S
SeqsOver(S, n) ==
    IF n = 0 THEN {<<>>}
    ELSE {Append(q, x) : q \in SeqsOver(S, n - 1), x \in S}

PageScripts ==
    UNION {{[counts |-> c, failAt |-> f, failKind |-> k] :
                c \in SeqsOver(ItemCounts, n),
                f \in 0..n, k \in {"http_error", "other_error"}} : n \in 1..MaxPages}

\* The items of page i as the host returns them.
PageItems(script, i) == [j \in 1..script.counts[i] |-> [page |-> i, index |-> j]]

\* response.get('nextPageToken') of page i
NextPageToken(script, i) == IF i < Len(script.counts) THEN <<i + 1>> ELSE <<>>

\* The host's answer to a list request carrying `token`.
HostPage(script, token) ==
    LET i == IF token = <<>> THEN 1 ELSE token[1] IN
    IF i = script.failAt
    THEN [kind |-> script.failKind, items |-> <<>>, next |-> <<>>]
    ELSE [kind |-> "ok", items |-> PageItems(script, i), next |-> NextPageToken(script, i)]

\* playlist_info / video_info: the fields a handler copies from a host item
ItemInfo(item) == [id |-> item]

\* The items of a page put in front of those of the pages before (the
\* mutant against which C7 is checked).
AppendPage_InFront(acc, items) == [j \in 1..Len(items) |-> ItemInfo(items[j])] \o acc

\* playlists.append(playlist_info) for every item of a page, in order
AppendPage(acc, items) == acc \o [j \in 1..Len(items) |-> ItemInfo(items[j])]

RECURSIVE ListLoop_RetryOnce(_, _, _, _, _)
\* A loop that asks once more for a page the host failed on (the mutant
\* against which C14 is checked).
ListLoop_RetryOnce(api, script, token, acc, calls) ==
    LET issued == Append(calls, Call(api, token))
        page == HostPage(script, token)
    IN  IF page.kind # "ok"
        THEN [kind |-> page.kind, items |-> acc,
              calls |-> Append(issued, Call(api, token))]
        ELSE LET acc2 == AppendPage(acc, page.items) IN
             IF page.next = <<>>
             THEN [kind |-> "ok", items |-> acc2, calls |-> issued]
             ELSE ListLoop_RetryOnce(api, script, page.next, acc2, issued)

RECURSIVE ListLoop(_, _, _, _, _)
\* The `while True` loop of list_playlists and list_playlist_videos: one
\* request per turn, with pageToken only when the last page carried one.
ListLoop(api, script, token, acc, calls) ==
    LET issued == Append(calls, Call(api, token))
        page == HostPage(script, token)
    IN  IF page.kind # "ok"
        THEN [kind |-> page.kind, items |-> acc, calls |-> issued]
        ELSE LET acc2 == AppendPage(acc, page.items) IN
             IF page.next = <<>>
             THEN [kind |-> "ok", items |-> acc2, calls |-> issued]
             ELSE ListLoop(api, script, page.next, acc2, issued)

\* The body shared by the two list handlers after the request is routed.
ListHandler(op, api, env) ==
        LET inp == [kind |-> op, script |-> [counts |-> <<>>, failAt |-> 0,
                                             failKind |-> "n/a"]]
            g == get_youtube_service(tokenFile, now, env)
        IN
        IF g.result = "raises"
        THEN Return(RespondWith(op, 500, ErrorBody("str(e)"), inp, g, <<>>), g.file)
        ELSE IF g.result = "none"
        THEN Return(AuthRequired(op, inp, g), g.file)
        ELSE
          \E script \in PageScripts :
            LET r == ListLoop(api, script, <<>>, <<>>, <<>>)
                inp2 == [inp EXCEPT !.script = script]
            IN
            IF r.kind = "ok"
            THEN Return(RespondWith(op, 200,
                          [kind |-> "success", items |-> r.items,
                           total_count |-> Len(r.items)], inp2, g, r.calls), g.file)
            ELSE Return(HostFailure(op, inp2, g, r.calls, r.kind), g.file)

\* GET /api/playlists/
ListPlaylists ==
    /\ WorkerFree
    /\ UNCHANGED inflight
    /\ \E env \in GysEnvs : ListHandler("list_playlists", "playlists.list", env)

\* GET /api/playlists/<playlist_id>/videos
ListPlaylistVideos ==
    /\ WorkerFree
    /\ UNCHANGED inflight
    /\ \E env \in GysEnvs : ListHandler("list_playlist_videos", "playlistItems.list", env)

(***************************************************************************)
(* Text: a string is a sequence of one-character strings.                  *)
(***************************************************************************)
\* str.lower(), on the letters the model's file names use
Lower(c) ==
    CASE c = "M" -> "m"
      [] c = "P" -> "p"
      [] c = "K" -> "k"
      [] c = "V" -> "v"
      [] OTHER -> c

LowerStr(s) == [i \in 1..Len(s) |-> Lower(s[i])]

\* c in s
Contains(s, c) == \E i \in 1..Len(s) : s[i] = c

\* s.rsplit(c, 1)[1], for s containing c: what follows the last c
AfterLast(s, c) ==
    LET i == CHOOSE k \in 1..Len(s) :
                 s[k] = c /\ \A j \in (k + 1)..Len(s) : s[j] # c
    IN  SubSeq(s, i + 1, Len(s))

\* str.isspace() of one character
IsSpace(c) == c \in {" ", "\n", "\t"}

RECURSIVE LStrip(_)
LStrip(s) == IF s # <<>> /\ IsSpace(Head(s)) THEN LStrip(Tail(s)) ELSE s

RECURSIVE RStrip(_)
RStrip(s) ==
    IF s # <<>> /\ IsSpace(s[Len(s)]) THEN RStrip(SubSeq(s, 1, Len(s) - 1)) ELSE s

\* str.strip()
Strip(s) == RStrip(LStrip(s))

RECURSIVE Split(_, _)
\* s.split(c): always at least one part
Split(s, c) ==
    IF ~Contains(s, c) THEN <<s>>
    ELSE LET i == CHOOSE k \in 1..Len(s) :
                      s[k] = c /\ \A j \in 1..(k - 1) : s[j] # c
         IN  <<SubSeq(s, 1, i - 1)>> \o Split(SubSeq(s, i + 1, Len(s)), c)

\* A cleaning that trims the tags and keeps the empty ones (the mutant
\* against which C12 is checked).
CleanTags_KeepEmpty(tags) == [i \in 1..Len(tags) |-> Strip(tags[i])]

\* [tag.strip() for tag in tags if tag.strip()]
CleanTags(tags) ==
    LET stripped == [i \in 1..Len(tags) |-> Strip(tags[i])]
        NonEmpty(t) == t # <<>>
    IN  SelectSeq(stripped, NonEmpty)

(***************************************************************************)
(* backend/routes/upload.py                                                *)
(***************************************************************************)
ALLOWED_EXTENSIONS ==
    {<<"m", "p", "4">>, <<"a", "v", "i">>, <<"m", "o", "v">>, <<"w", "m", "v">>,
     <<"f", "l", "v">>, <<"w", "e", "b", "m">>, <<"m", "k", "v">>}

\* An extension test that accepts an allowed extension anywhere after a dot,
\* as in a.mp4.x (the mutant against which C9 is checked).
allowed_file_AnyPart(filename) ==
    /\ Contains(filename, ".")
    /\ \E i \in 2..Len(Split(filename, ".")) :
          LowerStr(Split(filename, ".")[i]) \in ALLOWED_EXTENSIONS

allowed_file(filename) ==
    /\ Contains(filename, ".")
    /\ LowerStr(AfterLast(filename, ".")) \in ALLOWED_EXTENSIONS

\* app.config['MAX_CONTENT_LENGTH'] (app.py): 500 MiB, in bytes
MAX_CONTENT_LENGTH == 500 * 1024 * 1024

\* The file names of the model's requests.
Filenames ==
    {<<>>,
     <<"m", "p", "4">>,
     <<"a", ".", "m", "p", "4">>,
     <<"a", ".", "M", "P", "4">>,
     <<"a", ".", "M", "k", "v">>,
     <<"a", ".", "x", ".", "m", "o", "v">>,
     <<"a", ".", "m", "p", "4", ".", "x">>,
     <<".", "w", "e", "b", "m">>,
     <<"a", ".">>,
     <<"a", ".", "m", "p", "3">>,
     <<"a", "m", "p", "4">>}

\* The sizes, in bytes, of the model's uploaded files: around the ceiling,
\* and a 600 MiB file.
FileSizes ==
    {0, MAX_CONTENT_LENGTH - 1, MAX_CONTENT_LENGTH, MAX_CONTENT_LENGTH + 1,
     600 * 1024 * 1024}

\* The Content-Length a request declares: none (<<>>, a chunked body), or
\* the length of a body that holds the file and the multipart framing, which
\* is longer than the file.
ContentLength(size, declared) == IF declared THEN <<size + 1>> ELSE <<>>

\* The multipart requests: whether a part named 'video' is present, its file
\* name and size, and the declared length of the body.
Uploads(names, sizes, declared) ==
    {[hasFile |-> h, filename |-> f, size |-> z, length |-> ContentLength(z, d)] :
        h \in BOOLEAN, f \in names, z \in sizes, d \in declared}

\* request.files: Flask reads the body under app.config['MAX_CONTENT_LENGTH']
\* and raises RequestEntityTooLarge when the declared length exceeds it.
RequestTooLarge(req) == req.length # <<>> /\ req.length[1] > MAX_CONTENT_LENGTH

\* The checks upload_video and validate_upload share (lines 29-38, 172-183):
\* "ok", or the early return.
FileCheck(req) ==
    IF ~req.hasFile THEN "No video file provided"
    ELSE IF req.filename = <<>> THEN "No file selected"
    ELSE IF ~allowed_file(req.filename) THEN "File type not allowed"
    ELSE "ok"

\* The form fields upload_video reads: tags (None when the field is absent)
\* and playlist_id.
TagFields == {<<>>, <<" ", "a", " ", ",", ",", "b", ",", " ">>}

UploadForms ==
    {[hasTags |-> (t # <<>>), tags |-> t, playlist_id |-> p] :
        t \in TagFields, p \in {None, "", "PL1"}}

\* The requests of the model to upload_video: small files, and a 600 MiB
\* file, in bodies of declared length.
UploadFilenames ==
    {<<>>, <<"a", ".", "m", "p", "4">>, <<"a", ".", "M", "k", "v">>,
     <<"a", ".", "m", "p", "3">>}

UploadRequests == Uploads(UploadFilenames, {0, 600 * 1024 * 1024}, {TRUE})

\* request.form.get('tags', '').split(',') if request.form.get('tags') else []
\* followed by the cleaning of line 49
FormTags(form) ==
    IF form.hasTags /\ form.tags # <<>>
    THEN CleanTags(Split(form.tags, ","))
    ELSE <<>>

\* The payload of an HttpError (e.content): empty, UTF-8 text, or bytes
\* that are not UTF-8 ("xFF" stands for such a byte).
HostPayloads == {<<>>, <<"{", "e", "}">>, <<"{", "xFF", "}">>}

\* bytes.decode('utf-8') is defined on these payloads only
Decodable(content) == ~Contains(content, "xFF")

\* The resumable upload as the host plays it: `progress` calls of next_chunk
\* return (status, None), and the next one ends the loop:
\*   "done"        (None, response) with an 'id'
\*   "done_noid"   (None, response) without 'id'
\*   "http_error"  raises HttpError carrying `content`
\*   "other_error" raises another exception
ChunkScripts ==
    {[progress |-> n, terminal |-> t, content |-> <<>>] :
        n \in 0..MaxChunks, t \in {"done", "done_noid", "other_error"}}
      \cup {[progress |-> n, terminal |-> "http_error", content |-> c] :
               n \in 0..MaxChunks, c \in HostPayloads}

RECURSIVE ChunkLoop(_, _, _)
\* while response is None: status, response = insert_request.next_chunk()
ChunkLoop(script, k, calls) ==
    LET issued == Append(calls, Call("videos.insert.next_chunk", <<k>>)) IN
    IF k <= script.progress
    THEN ChunkLoop(script, k + 1, issued)
    ELSE [kind |-> script.terminal, calls |-> issued]

\* What happens between the authentication and the return of upload_video:
\*   mkdtemp  "ok" | "fail"                      tempfile.mkdtemp()
\*   save     "ok" | "fail_nofile" | "fail_partial"   file.save(temp_path)
\*   media    "ok" | "fail"     MediaFileUpload(...), youtube.videos().insert(...)
\*   script   the resumable upload
\*   attach   the outcome of playlistItems().insert(...).execute()
\*   remove, rmdir   "ok" | "fail"   os.remove(temp_path), os.rmdir(temp_dir)
\* A step that is not reached is "n/a".
NoScript == [progress |-> 0, terminal |-> "n/a", content |-> <<>>]

Cleanups == {[remove |-> "ok", rmdir |-> "ok"], [remove |-> "fail", rmdir |-> "n/a"],
             [remove |-> "ok", rmdir |-> "fail"]}

UploadRun(mk, sv, md, sc, at, cl) ==
    [mkdtemp |-> mk, save |-> sv, media |-> md, script |-> sc, attach |-> at,
     remove |-> cl.remove, rmdir |-> cl.rmdir]

NoCleanup == [remove |-> "n/a", rmdir |-> "n/a"]

UploadRuns(form) ==
    {UploadRun("fail", "n/a", "n/a", NoScript, "n/a", NoCleanup)}
      \cup {UploadRun("ok", sv, "n/a", NoScript, "n/a", NoCleanup) :
               sv \in {"fail_nofile", "fail_partial"}}
      \cup {UploadRun("ok", "ok", "fail", NoScript, "n/a", cl) : cl \in Cleanups}
      \cup {UploadRun("ok", "ok", "ok", sc, "n/a", cl) :
               sc \in {x \in ChunkScripts :
                          x.terminal # "done" \/ Falsy(form.playlist_id)},
               cl \in Cleanups}
      \cup {UploadRun("ok", "ok", "ok", sc, at, cl) :
               sc \in {x \in ChunkScripts :
                          x.terminal = "done" /\ ~Falsy(form.playlist_id)},
               at \in HostOutcomes, cl \in Cleanups}

\* The outcome of the inner try block (lines 62-133): what it returns or
\* raises, and the calls it issued.
\*   kind "success" | "http_error" (HttpError raised) | "error" (another
\*   exception raised)
UploadTry(form, run) ==
    LET insert_request == <<Call("videos.insert", FormTags(form))>> IN
    IF run.media = "fail"
    THEN [kind |-> "error", calls |-> <<>>, content |-> <<>>]
    ELSE
      LET up == ChunkLoop(run.script, 1, insert_request) IN
      IF up.kind = "http_error"
      THEN [kind |-> "http_error", calls |-> up.calls, content |-> run.script.content]
      ELSE IF up.kind # "done"
      THEN [kind |-> "error", calls |-> up.calls, content |-> <<>>]
      ELSE IF Falsy(form.playlist_id)
      THEN [kind |-> "success", calls |-> up.calls, content |-> <<>>]
      ELSE
        LET calls == Append(up.calls,
                            Call("playlistItems.insert", <<form.playlist_id, "V1">>))
        IN  IF run.attach = "other_error"
            THEN [kind |-> "error", calls |-> calls, content |-> <<>>]
            ELSE [kind |-> "success", calls |-> calls, content |-> <<>>]

\* The finally block (lines 135-141): os.remove, then os.rmdir; a failure
\* skips what follows and is logged.  What is left: <<file, directory>>.
CleanUp(run) ==
    IF run.remove = "fail" THEN [file |-> TRUE, dir |-> TRUE]
    ELSE IF run.rmdir = "fail" THEN [file |-> FALSE, dir |-> TRUE]
    ELSE [file |-> FALSE, dir |-> FALSE]

\* app.errorhandler(500) (app.py): the answer to an exception that leaves a
\* handler
InternalError(r) ==
    [r EXCEPT !.status = 500, !.escaped = TRUE,
              !.body = ErrorBody("Internal server error")]

\* upload_video from the save of the file on (lines 56-156).
UploadSaved(op, inp, form, g, run) ==
    LET base == RespondWith(op, 500, ErrorBody("str(e)"), inp, g, <<>>) IN
    IF run.mkdtemp = "fail"
    THEN base
    ELSE IF run.save # "ok"
    THEN [base EXCEPT !.tempDir = TRUE, !.tempFile = (run.save = "fail_partial")]
    ELSE
      LET t == UploadTry(form, run)
          left == CleanUp(run)
          r == [RespondWith(op, 500, ErrorBody("str(e)"), inp, g, t.calls)
                   EXCEPT !.tempDir = left.dir, !.tempFile = left.file]
      IN  IF t.kind = "success"
          THEN [r EXCEPT !.status = 200,
                         !.body = [kind |-> "success", video_id |-> "V1"]]
          ELSE IF t.kind = "http_error"
          THEN IF t.content = <<>>
               THEN [r EXCEPT !.status = 400,
                              !.body = [kind |-> "host_error",
                                        message |-> <<"YouTube API error: ", "str(e)">>]]
               ELSE IF Decodable(t.content)
               THEN [r EXCEPT !.status = 400,
                              !.body = [kind |-> "host_error",
                                        message |-> <<"YouTube API error: ">> \o t.content]]
               ELSE InternalError(r)
          ELSE r

\* POST /api/upload/video
UploadVideo ==
    /\ WorkerFree
    /\ UNCHANGED inflight
    /\ \E req \in UploadRequests, form \in UploadForms :
        LET op == "upload_video"
            inp == [kind |-> op, req |-> req, form |-> form,
                    run |-> UploadRun("n/a", "n/a", "n/a", NoScript, "n/a", NoCleanup)]
            check == FileCheck(req)
        IN
        IF RequestTooLarge(req)
        THEN Return(Respond(op, 500, ErrorBody("str(e)"), inp), tokenFile)
        ELSE IF check # "ok"
        THEN Return(Respond(op, 400, ErrorBody(check), inp), tokenFile)
        ELSE
          \E env \in GysEnvs :
            LET g == get_youtube_service(tokenFile, now, env) IN
            IF g.result = "raises"
            THEN Return(RespondWith(op, 500, ErrorBody("str(e)"), inp, g, <<>>), g.file)
            ELSE IF g.result = "none"
            THEN Return(AuthRequired(op, inp, g), g.file)
            ELSE
              \E run \in UploadRuns(form) :
                Return(UploadSaved(op, [inp EXCEPT !.run = run], form, g, run), g.file)

\* POST /api/upload/validate
ValidateUpload ==
    /\ WorkerFree
    /\ UNCHANGED inflight
    /\ \E req \in Uploads(Filenames, FileSizes, BOOLEAN), seek \in {"ok", "fail"} :
        LET op == "validate_upload"
            inp == [kind |-> op, req |-> req, seek |-> seek]
            check == FileCheck(req)
        IN
        IF RequestTooLarge(req)
        THEN Return(Respond(op, 500, [kind |-> "verdict", valid |-> FALSE,
                                      error |-> "str(e)"], inp), tokenFile)
        ELSE IF check \in {"No video file provided", "No file selected"}
        THEN Return(Respond(op, 400, ErrorBody(check), inp), tokenFile)
        ELSE IF check # "ok"
        THEN Return(Respond(op, 400, [kind |-> "verdict", valid |-> FALSE,
                                      error |-> "File type not allowed"], inp), tokenFile)
        ELSE IF seek = "fail"
        THEN Return(Respond(op, 500, [kind |-> "verdict", valid |-> FALSE,
                                      error |-> "str(e)"], inp), tokenFile)
        ELSE IF req.size > MAX_CONTENT_LENGTH
        THEN Return(Respond(op, 400, [kind |-> "verdict", valid |-> FALSE,
                                      error |-> "File too large"], inp), tokenFile)
        ELSE Return(Respond(op, 200, [kind |-> "verdict", valid |-> TRUE,
                                      size |-> req.size], inp), tokenFile)

(***************************************************************************)
(* backend/routes/metadata.py                                              *)
(***************************************************************************)
NoMetaData == [keys |-> {}, text |-> "", topic |-> ""]

MetaDicts ==
    {d \in [keys : SUBSET {"text", "topic"}, text : {"", "X"}, topic : {"", "X"}] :
        /\ "text" \notin d.keys => d.text = ""
        /\ "topic" \notin d.keys => d.topic = ""}

MetaBodies == JsonOther(NoMetaData) \cup {[kind |-> "dict", data |-> d] : d \in MetaDicts}

\* The outcome of one openai.chat.completions.create call and of reading
\* choices[0].message.content.strip() from its result:
\*   "ok"         a completion with text content
\*   "fail"       the call raises (quota, network, no API key)
\*   "malformed"  the result has no text content, and reading it raises
LlmOutcomes == {"ok", "fail", "malformed"}

\* Completions of the tags prompt and of the category prompt.
TagCompletions == {<<"a", ",", " ", "b">>, <<" ", "a", ",", ",", " ", "\n">>}

CategoryCompletions ==
    {<<"2", "2">>, <<" ", "2", "7", "\n">>, <<"1", "0">>, <<"9", "9">>,
     <<"2", " ", "7">>, <<"M", "v">>, <<>>}

valid_categories ==
    {<<"1">>, <<"2">>, <<"1", "0">>, <<"1", "5">>, <<"1", "7">>, <<"1", "9">>,
     <<"2", "0">>, <<"2", "2">>, <<"2", "3">>, <<"2", "4">>, <<"2", "5">>,
     <<"2", "6">>, <<"2", "7">>, <<"2", "8">>}

\* tags = [tag.strip() for tag in tags_text.split(',') if tag.strip()]
ParseTags(content) == CleanTags(Split(Strip(content), ","))

\* A category taken from the completion as it is, without the default (the
\* mutant against which C11 is checked).
ParseCategory_AsGiven(content) == Strip(content)

\* category_id = content.strip(), replaced by '22' when not a valid category
ParseCategory(content) ==
    LET category_id == Strip(content) IN
    IF category_id \in valid_categories THEN category_id ELSE <<"2", "2">>

\* The four completions of one synthesis, in the order the handler asks for
\* them; a call that is not reached is "n/a".
MetaRun(t, d, g, c, tagsText, categoryText) ==
    [title |-> t, description |-> d, tags |-> g, category |-> c,
     tagsText |-> tagsText, categoryText |-> categoryText]

Failures == {"fail", "malformed"}

MetaRuns ==
    {MetaRun(t, "n/a", "n/a", "n/a", <<>>, <<>>) : t \in Failures}
      \cup {MetaRun("ok", d, "n/a", "n/a", <<>>, <<>>) : d \in Failures}
      \cup {MetaRun("ok", "ok", g, "n/a", <<>>, <<>>) : g \in Failures}
      \cup {MetaRun("ok", "ok", "ok", c, x, <<>>) : c \in Failures, x \in TagCompletions}
      \cup {MetaRun("ok", "ok", "ok", "ok", x, y) :
               x \in TagCompletions, y \in CategoryCompletions}

MetaFields == <<"title", "description", "tags", "category">>

RECURSIVE Synthesize_Lenient(_, _, _)
\* A synthesis that tolerates the failure of the category call and goes on
\* with the default (the mutant against which C10 is checked).
Synthesize_Lenient(run, k, calls) ==
    IF k > Len(MetaFields)
    THEN [kind |-> "ok", calls |-> calls]
    ELSE LET issued == Append(calls, Call("openai.chat.completions.create",
                                           <<MetaFields[k]>>))
         IN  IF run[MetaFields[k]] # "ok" /\ MetaFields[k] # "category"
             THEN [kind |-> "error", calls |-> issued]
             ELSE Synthesize_Lenient(run, k + 1, issued)

RECURSIVE Synthesize(_, _, _)
\* The four sequential calls of generate_metadata (lines 53-145): the k-th
\* call is issued, and its failure ends the synthesis.
Synthesize(run, k, calls) ==
    IF k > Len(MetaFields)
    THEN [kind |-> "ok", calls |-> calls]
    ELSE LET issued == Append(calls, Call("openai.chat.completions.create",
                                           <<MetaFields[k]>>))
         IN  IF run[MetaFields[k]] # "ok"
             THEN [kind |-> "error", calls |-> issued]
             ELSE Synthesize(run, k + 1, issued)

\* jsonify of the four fields (lines 147-153)
MetadataBody(run) ==
    [kind |-> "success", title |-> <<"T">>, description |-> <<"D">>,
     tags |-> ParseTags(run.tagsText), category_id |-> ParseCategory(run.categoryText)]

\* POST /api/metadata/generate
GenerateMetadata ==
    /\ WorkerFree
    /\ UNCHANGED inflight
    /\ \E json \in MetaBodies :
        LET op == "generate_metadata"
            inp == [kind |-> op, json |-> json,
                    run |-> MetaRun("n/a", "n/a", "n/a", "n/a", <<>>, <<>>)]
        IN
        IF json.kind = "raises"
        THEN Return(Respond(op, 500, ErrorBody("str(e)"), inp), tokenFile)
        ELSE IF NoData(json)
        THEN Return(Respond(op, 400, ErrorBody("No data provided"), inp), tokenFile)
        ELSE IF json.kind = "nondict"
        THEN Return(Respond(op, 500, ErrorBody("str(e)"), inp), tokenFile)
        ELSE IF Falsy(Get(json.data, "text", "")) /\ Falsy(Get(json.data, "topic", ""))
        THEN Return(Respond(op, 400,
                            ErrorBody("Either text or topic must be provided"), inp),
                    tokenFile)
        ELSE
          \E run \in MetaRuns :
            LET r == Synthesize(run, 1, <<>>)
                inp2 == [inp EXCEPT !.run = run]
            IN  IF r.kind = "ok"
                THEN Return([Respond(op, 200, MetadataBody(run), inp2)
                                EXCEPT !.calls = r.calls], tokenFile)
                ELSE Return([Respond(op, 500, ErrorBody("str(e)"), inp2)
                                EXCEPT !.calls = r.calls], tokenFile)

(***************************************************************************)
(* The single-field endpoints of metadata.py: /title, /description and     *)
(* /keywords.  They read data.get('text', '') without testing data first.  *)
(***************************************************************************)
NoTextData == [keys |-> {}, text |-> ""]

TextDicts ==
    {d \in [keys : SUBSET {"text"}, text : {"", "X", None}] :
        "text" \notin d.keys => d.text = ""}

TextBodies == JsonOther(NoTextData) \cup {[kind |-> "dict", data |-> d] : d \in TextDicts}

\* The body of a single-field endpoint: field is what it asks the language
\* model for, llm the outcome of the call, value what it makes of the
\* completion.
TextOnlyHandler(op, field, json, llm, value) ==
    LET inp == [kind |-> op, json |-> json, llm |-> "n/a"] IN
    IF json.kind # "dict"
    THEN Return(Respond(op, 500, ErrorBody("str(e)"), inp), tokenFile)
    ELSE IF Falsy(Get(json.data, "text", ""))
    THEN Return(Respond(op, 400, ErrorBody("Text is required"), inp), tokenFile)
    ELSE
      LET calls == <<Call("openai.chat.completions.create", <<field>>)>>
          inp2 == [inp EXCEPT !.llm = llm]
      IN  IF llm # "ok"
          THEN Return([Respond(op, 500, ErrorBody("str(e)"), inp2)
                          EXCEPT !.calls = calls], tokenFile)
          ELSE Return([Respond(op, 200, [kind |-> "success", value |-> value], inp2)
                          EXCEPT !.calls = calls], tokenFile)

\* POST /api/metadata/title
GenerateTitleOnly ==
    /\ WorkerFree
    /\ UNCHANGED inflight
    /\ \E json \in TextBodies, llm \in LlmOutcomes :
          TextOnlyHandler("generate_title_only", "title", json, llm, <<"T">>)

\* POST /api/metadata/description
GenerateDescriptionOnly ==
    /\ WorkerFree
    /\ UNCHANGED inflight
    /\ \E json \in TextBodies, llm \in LlmOutcomes :
          TextOnlyHandler("generate_description_only", "description", json, llm,
                          <<"D">>)

\* POST /api/metadata/keywords
GenerateKeywords ==
    /\ WorkerFree
    /\ UNCHANGED inflight
    /\ \E json \in TextBodies, llm \in LlmOutcomes, completion \in TagCompletions :
          TextOnlyHandler("generate_keywords", "keywords", json, llm,
                          ParseTags(completion))

(***************************************************************************)
(* The system.                                                             *)
(***************************************************************************)
Init ==
    /\ tokenFile \in InitialFiles
    /\ now = 0
    /\ session = FALSE
    /\ resp = Idle
    /\ inflight = NoRequests

\* The response reaches the client and the worker is free for the next
\* request (each endpoint invocation runs to completion in one worker).
SendResponse ==
    /\ ~WorkerFree
    /\ resp' = Idle
    /\ UNCHANGED <<tokenFile, now, session, inflight>>

Next ==
    \/ SendResponse
    \/ Tick
    \/ AuthStatus
    \/ Login
    \/ Callback
    \/ Logout
    \/ HealthCheck
    \/ CreatePlaylist
    \/ AddVideoToPlaylist
    \/ DeletePlaylist
    \/ ListPlaylists
    \/ ListPlaylistVideos
    \/ UploadVideo
    \/ ValidateUpload
    \/ GenerateMetadata
    \/ GenerateTitleOnly
    \/ GenerateDescriptionOnly
    \/ GenerateKeywords

Spec == Init /\ [][Next]_vars

(***************************************************************************)
(* The tag parsers on their own.  The text of a tags field or of a tags    *)
(* completion is drawn from the texts of up to MaxTagLen characters over   *)
(* a letter, the blank and the comma; a parser is applied to it, and then  *)
(* once more to its own result joined by commas (what a client does that   *)
(* sends the tags it received back in the form field).                     *)
(***************************************************************************)
TagAlphabet == {"a", " ", ","}

TagTexts == UNION {SeqsOver(TagAlphabet, n) : n \in 0..MaxTagLen}

\* The two ways the program parses tags: metadata.py lines 106-107 and
\* 273-274 (strip, split, clean), and upload.py lines 43 and 49 (split unless
\* the field is empty, clean).
TagParsers == {"metadata", "upload"}

ApplyTagParser(parser, text) ==
    IF parser = "metadata"
    THEN ParseTags(text)
    ELSE FormTags([hasTags |-> TRUE, tags |-> text, playlist_id |-> None])

RECURSIVE Join(_)
\* ','.join(tags)
Join(tags) ==
    IF tags = <<>> THEN <<>>
    ELSE IF Len(tags) = 1 THEN tags[1]
    ELSE tags[1] \o <<",">> \o Join(Tail(tags))

TagInit ==
    /\ tokenFile = AbsentFile
    /\ now = 0
    /\ session = FALSE
    /\ inflight = NoRequests
    /\ \E text \in TagTexts :
          resp = [Idle EXCEPT !.inp = [kind |-> "tags", text |-> text]]

\* A parser is applied to the text.
ParseTagText ==
    /\ resp.op = "none"
    /\ \E parser \in TagParsers :
          resp' = [resp EXCEPT
                     !.op = "parse_tags",
                     !.inp = [kind |-> "tags", text |-> resp.inp.text,
                              parser |-> parser],
                     !.body = [kind |-> "tags",
                               tags |-> ApplyTagParser(parser, resp.inp.text)]]
    /\ UNCHANGED <<tokenFile, now, session, inflight>>

\* The same parser is applied to the comma-join of its result.
ReparseJoined ==
    /\ resp.op = "parse_tags"
    /\ resp' = [resp EXCEPT
                  !.op = "reparse_tags",
                  !.inp = [kind |-> "tags", text |-> Join(resp.body.tags),
                           parser |-> resp.inp.parser, first |-> resp.body.tags],
                  !.body = [kind |-> "tags",
                            tags |-> ApplyTagParser(resp.inp.parser,
                                                    Join(resp.body.tags))]]
    /\ UNCHANGED <<tokenFile, now, session, inflight>>

TagNext ==
    \/ ParseTagText
    \/ ReparseJoined

TagSpec == TagInit /\ [][TagNext]_vars

(***************************************************************************)
(* Requests served concurrently.  Flask serves each request on a worker of *)
(* its own, and the workers share nothing but the token file.  Here        *)
(* get_youtube_service and logout are taken apart into their accesses to   *)
(* the file and to the OAuth provider, and the accesses of two workers     *)
(* interleave.  inflight holds, for each worker, where its request stands: *)
(*   pc        "start" | "refresh" | "write" | "remove" | "done"           *)
(*   op        "client" (a handler inside get_youtube_service) | "logout"  *)
(*   read      the token file as the worker found it                       *)
(*   creds     the credential the worker holds in memory                   *)
(*   refreshed, wrote   what the worker did                                *)
(*   at        the position of its write or removal among the changes of   *)
(*             the token file, 0 when it made none                         *)
(*   result    "client" | "none" for get_youtube_service, "ok" | "error"   *)
(*             for logout                                                  *)
(***************************************************************************)
Workers == {"w1", "w2"}

Fresh == [pc |-> "start", op |-> "n/a", read |-> AbsentFile, creds |-> AbsentFile,
          refreshed |-> FALSE,
          wrote |-> FALSE, at |-> 0, result |-> "n/a"]

\* The token files the concurrent requests start from.
ConcFiles == {AbsentFile, CredFile(TRUE, <<1>>, TRUE), CredFile(TRUE, <<1>>, FALSE)}

\* The access token of a refreshed credential is a new one: the provider
\* issued it in answer to the exchange of worker w.
IssuedTo(c, w) == [access |-> w] @@ c

\* The number of changes made to the token file so far.
FileChanges == Cardinality({w \in Workers : inflight[w].at > 0})

\* Worker w ends its request.
Done(w, result) == [inflight[w] EXCEPT !.pc = "done", !.result = result]

ConcInit ==
    /\ tokenFile \in ConcFiles
    /\ now = 0
    /\ session = FALSE
    /\ resp = Idle
    /\ inflight = [w \in Workers |-> Fresh]

\* A load that waits while another worker is between its load and its save
\* (the mutant against which C22 is checked).
GysLoad_Exclusive(w) ==
    /\ inflight[w].pc = "start"
    /\ \A v \in Workers \ {w} : inflight[v].pc \notin {"refresh", "write"}
    /\ \E build \in {"ok", "fail"} :
        LET loaded == Loaded(tokenFile, now)
            r == [inflight[w] EXCEPT !.op = "client", !.read = tokenFile]
        IN  inflight' = [inflight EXCEPT ![w] =
               IF loaded = "expired_refreshable"
               THEN [r EXCEPT !.pc = "refresh", !.creds = tokenFile]
               ELSE IF loaded = "valid" /\ build = "ok"
               THEN [r EXCEPT !.pc = "done", !.creds = tokenFile, !.result = "client"]
               ELSE [r EXCEPT !.pc = "done", !.result = "none"]]
    /\ UNCHANGED <<tokenFile, now, session, resp>>

\* get_youtube_service, lines 21-38 and 48-54: the file is looked for and
\* loaded, and the credential is tested.  No lock is taken.
GysLoad(w) ==
    /\ inflight[w].pc = "start"
    /\ \E build \in {"ok", "fail"} :
        LET loaded == Loaded(tokenFile, now)
            r == [inflight[w] EXCEPT !.op = "client", !.read = tokenFile]
        IN  inflight' = [inflight EXCEPT ![w] =
               IF loaded = "expired_refreshable"
               THEN [r EXCEPT !.pc = "refresh", !.creds = tokenFile]
               ELSE IF loaded = "valid" /\ build = "ok"
               THEN [r EXCEPT !.pc = "done", !.creds = tokenFile, !.result = "client"]
               ELSE [r EXCEPT !.pc = "done", !.result = "none"]]
    /\ UNCHANGED <<tokenFile, now, session, resp>>

\* creds.refresh(Request()), line 40: the exchange with the OAuth provider
GysRefresh(w) ==
    /\ inflight[w].pc = "refresh"
    /\ \E outcome \in {"ok", "fail"}, life \in 1..MaxLifetime :
        inflight' = [inflight EXCEPT ![w] =
           IF outcome = "ok"
           THEN [@ EXCEPT !.pc = "write", !.refreshed = TRUE,
                          !.creds = IssuedTo(Refreshed(@, now, [lifetime |-> life]), w)]
           ELSE Done(w, "none")]
    /\ UNCHANGED <<tokenFile, now, session, resp>>

\* The save of lines 42-43, and the build of line 53 after it
GysWrite(w) ==
    /\ inflight[w].pc = "write"
    /\ \E outcome \in {"ok", "open_fails", "write_fails"}, build \in {"ok", "fail"} :
        /\ tokenFile' = WriteTokenFile(tokenFile, inflight[w].creds, outcome)
        /\ inflight' = [inflight EXCEPT ![w] =
              IF outcome = "ok"
              THEN [@ EXCEPT !.pc = "done", !.wrote = TRUE, !.at = FileChanges + 1,
                             !.result = IF build = "ok" THEN "client" ELSE "none"]
              ELSE Done(w, "none")]
    /\ UNCHANGED <<now, session, resp>>

\* logout, line 212: os.path.exists(token_path)
LogoutExists(w) ==
    /\ inflight[w].pc = "start"
    /\ inflight' = [inflight EXCEPT ![w] =
          IF Exists(tokenFile)
          THEN [@ EXCEPT !.op = "logout", !.pc = "remove"]
          ELSE [@ EXCEPT !.op = "logout", !.pc = "done", !.result = "ok"]]
    /\ UNCHANGED <<tokenFile, now, session, resp>>

\* logout, line 213: os.remove(token_path), which raises when the file is
\* gone by now or cannot be removed
LogoutRemove(w) ==
    /\ inflight[w].pc = "remove"
    /\ \E remove \in {"ok", "fail"} :
        IF Exists(tokenFile) /\ remove = "ok"
        THEN /\ tokenFile' = AbsentFile
             /\ inflight' = [inflight EXCEPT ![w] =
                   [@ EXCEPT !.pc = "done", !.at = FileChanges + 1, !.result = "ok"]]
        ELSE /\ tokenFile' = tokenFile
             /\ inflight' = [inflight EXCEPT ![w] = Done(w, "error")]
    /\ UNCHANGED <<now, session, resp>>

\* Time passes.
ConcTick ==
    /\ now < MaxTime
    /\ now' = now + 1
    /\ UNCHANGED <<tokenFile, session, resp, inflight>>

ConcNext ==
    \/ \E w \in Workers : GysLoad(w)
    \/ \E w \in Workers : GysRefresh(w)
    \/ \E w \in Workers : GysWrite(w)
    \/ \E w \in Workers : LogoutExists(w)
    \/ \E w \in Workers : LogoutRemove(w)
    \/ ConcTick

ConcSpec == ConcInit /\ [][ConcNext]_vars

(***************************************************************************)
(* The upload, call by call.  The inner try block of upload_video (lines   *)
(* 62-133) taken apart into its calls to the video host, for requests that *)
(* passed the checks, were authenticated and saved their file.  Each       *)
(* worker serves one upload; inflight holds where it stands:               *)
(*   pc          "insert" | "loop" | "attach" | "returned"                 *)
(*   playlist_id the form field, None when it is not given                 *)
(*   sessions    the resumable insert requests created                     *)
(*   chunks      the next_chunk calls issued                               *)
(*   response    what the last next_chunk returned: "none" | "video" |     *)
(*               "no_id"                                                   *)
(*   attached    the playlistItems().insert(...).execute() calls issued    *)
(*   status      the status of the answer, 0 while there is none           *)
(***************************************************************************)
Starting(playlist_id) ==
    [pc |-> "insert", playlist_id |-> playlist_id, sessions |-> 0, chunks |-> 0,
     response |-> "none", attached |-> 0, status |-> 0]

\* request.form.get('playlist_id'), line 49
FormPlaylistIds == {None, "", "PL1"}

UploadInit ==
    /\ tokenFile \in {c \in InitialFiles : c.kind = "cred"}
    /\ now = 0
    /\ session = FALSE
    /\ resp = Idle
    /\ inflight \in [Workers -> {Starting(p) : p \in FormPlaylistIds}]

\* The inner try block left: the answer of the handler
Returned(w, status) == [inflight[w] EXCEPT !.pc = "returned", !.status = status]

\* MediaFileUpload(...) and youtube.videos().insert(...), lines 79-92
CreateInsertRequest(w) ==
    /\ inflight[w].pc = "insert"
    /\ \E media \in {"ok", "fail"} :
        inflight' = [inflight EXCEPT ![w] =
           IF media = "ok"
           THEN [@ EXCEPT !.pc = "loop", !.sessions = @ + 1]
           ELSE Returned(w, 500)]
    /\ UNCHANGED <<tokenFile, now, session, resp>>

\* A loop that goes round once more after the terminal response (the mutant
\* against which C24 is checked).
NextChunk_PastTerminal(w) ==
    /\ inflight[w].pc = "loop"
    /\ inflight[w].chunks <= MaxChunks + 1
    /\ \E outcome \in {"none", "video", "http_error"} :
        /\ outcome = "none" => inflight[w].chunks < MaxChunks
        /\ inflight' = [inflight EXCEPT ![w] =
              LET issued == [@ EXCEPT !.chunks = @ + 1] IN
              CASE outcome = "none" -> issued
                [] outcome = "video" -> [issued EXCEPT !.response = "video"]
                [] OTHER -> [issued EXCEPT !.pc = "returned", !.status = 400]]
    /\ UNCHANGED <<tokenFile, now, session, resp>>

\* One turn of `while response is None` (lines 96-100) and, after the
\* terminal response, response['id'] (line 102) and `if playlist_id`
\* (line 106).  The host answers the chunk with no response yet, with the
\* terminal response, or the call raises.  At most MaxChunks calls come back
\* without a response.
NextChunk(w) ==
    /\ inflight[w].pc = "loop"
    /\ \E outcome \in {"none", "video", "no_id", "http_error", "error"} :
        /\ outcome = "none" => inflight[w].chunks < MaxChunks
        /\ inflight' = [inflight EXCEPT ![w] =
              LET issued == [@ EXCEPT !.chunks = @ + 1] IN
              CASE outcome = "none" -> issued
                [] outcome = "video" ->
                     IF ~Falsy(issued.playlist_id)
                     THEN [issued EXCEPT !.response = "video", !.pc = "attach"]
                     ELSE [issued EXCEPT !.response = "video", !.pc = "returned",
                                         !.status = 200]
                [] outcome = "no_id" ->
                     [issued EXCEPT !.response = "no_id", !.pc = "returned",
                                    !.status = 500]
                [] outcome = "http_error" ->
                     [issued EXCEPT !.pc = "returned", !.status = 400]
                [] OTHER ->
                     [issued EXCEPT !.pc = "returned", !.status = 500]]
    /\ UNCHANGED <<tokenFile, now, session, resp>>

\* youtube.playlistItems().insert(...).execute(), lines 107-125: an
\* HttpError is logged, any other exception leaves through the outer
\* handler.
AttachToPlaylist(w) ==
    /\ inflight[w].pc = "attach"
    /\ \E attach \in {"ok", "http_error", "other_error"} :
        inflight' = [inflight EXCEPT ![w] =
           [@ EXCEPT !.attached = @ + 1, !.pc = "returned",
                     !.status = IF attach = "other_error" THEN 500 ELSE 200]]
    /\ UNCHANGED <<tokenFile, now, session, resp>>

UploadNext ==
    \/ \E w \in Workers : CreateInsertRequest(w)
    \/ \E w \in Workers : NextChunk(w)
    \/ \E w \in Workers : AttachToPlaylist(w)

\* The handler runs on: a call that can be made is made.  The video host
\* does not answer "no response yet" for ever: every upload gets its
\* terminal response or an error in the end.
UploadFairness ==
    \A w \in Workers :
        /\ WF_vars(CreateInsertRequest(w))
        /\ WF_vars(NextChunk(w) /\ inflight'[w].pc # "loop")
        /\ WF_vars(AttachToPlaylist(w))

UploadSpec == UploadInit /\ [][UploadNext]_vars /\ UploadFairness

(***************************************************************************)
(* Properties.                                                             *)
(***************************************************************************)
\* The calls among `calls` that go to the video host.
HostCalls(calls) ==
    LET ToHost(c) == c.api \notin {"oauth.refresh", "oauth.fetch_token",
                                    "openai.chat.completions.create"}
    IN  SelectSeq(calls, ToHost)

\* The calls among `calls` that go to the OAuth provider.
OAuthCalls(calls) ==
    LET ToOAuth(c) == c.api \in {"oauth.refresh", "oauth.fetch_token"}
    IN  SelectSeq(calls, ToOAuth)

\* The endpoints that need a client handle.
ClientOps ==
    {"upload_video", "list_playlists", "create_playlist", "list_playlist_videos",
     "add_video_to_playlist", "delete_playlist"}

\* C1: get_youtube_service never raises, and it returns None whenever the
\* token file is missing, cannot be loaded, holds an expired credential
\* without a refresh token, or holds an expired credential whose refresh
\* exchange fails.
C1_AbsentNeverRaises ==
    resp.gys.called =>
        /\ resp.gys.result \in {"client", "none"}
        /\ resp.gys.loaded \in {"absent", "unloadable", "expired_no_refresh"}
              => resp.gys.result = "none"
        /\ (resp.gys.loaded = "expired_refreshable" /\ ~resp.gys.refreshed)
              => resp.gys.result = "none"

\* An expired credential without a refresh token was loaded, and the call
\* returned None.
C1_Witness ==
    /\ resp.gys.called
    /\ resp.gys.loaded = "expired_no_refresh"
    /\ resp.gys.result = "none"

\* C2: whenever get_youtube_service returns None to one of the six endpoints
\* that need a client handle, the endpoint answers 401 'YouTube
\* authentication required' and issues no call to the video host.
C2_AbsentIs401 ==
    (resp.op \in ClientOps /\ resp.gys.called /\ resp.gys.result # "client") =>
        /\ resp.status = 401
        /\ ~resp.escaped
        /\ resp.body = ErrorBody("YouTube authentication required")
        /\ HostCalls(resp.calls) = <<>>

\* upload_video answered 401 after the refresh exchange failed.
C2_Witness ==
    /\ resp.op = "upload_video"
    /\ resp.gys.loaded = "expired_refreshable"
    /\ resp.gys.result = "none"
    /\ resp.status = 401

\* C3: a get_youtube_service call that refreshes an expired credential and
\* returns a handle leaves a credential in the token file that is valid at
\* that time; and a call that finds a valid credential in the file issues no
\* refresh exchange and leaves the file as it is.
C3_RefreshPersisted ==
    [][/\ (resp'.gys.called /\ resp'.gys.refreshed /\ resp'.gys.result = "client")
            => (tokenFile'.kind = "cred" /\ Valid(tokenFile', now'))
       /\ (resp'.gys.called /\ tokenFile.kind = "cred" /\ Valid(tokenFile, now))
            => /\ ~resp'.gys.refreshed
               /\ OAuthCalls(resp'.calls) = <<>>
               /\ tokenFile' = tokenFile]_vars

\* A handler refreshed the credential, got a handle, and the file holds the
\* refreshed credential.
C3_Witness ==
    /\ resp.gys.called
    /\ resp.gys.loaded = "expired_refreshable"
    /\ resp.gys.refreshed
    /\ resp.gys.result = "client"
    /\ tokenFile.kind = "cred"
    /\ Valid(tokenFile, now)

\* C4: after upload_video returns, on every path, neither the temporary
\* file nor the temporary directory of the request exists.
C4_TempAlwaysRemoved ==
    resp.op = "upload_video" => (~resp.tempDir /\ ~resp.tempFile)

\* C5: once the upload has its terminal success response, upload_video
\* reports success with the video id whatever the attach call does.
C5_AttachNeverChangesResponse ==
    (resp.op = "upload_video" /\ resp.inp.run.script.terminal = "done") =>
        /\ resp.status = 200
        /\ resp.body = [kind |-> "success", video_id |-> "V1"]

\* The failures of the upload proper: a host error of a chunk transfer, and
\* the local ones.
HostErrorDuringUpload == resp.inp.run.script.terminal = "http_error"

LocalUploadFailure ==
    \/ resp.inp.run.mkdtemp = "fail"
    \/ resp.inp.run.save \in {"fail_nofile", "fail_partial"}
    \/ resp.inp.run.media = "fail"
    \/ resp.inp.run.script.terminal \in {"other_error", "done_noid"}

\* `message` ends with `content`
EndsWith(message, content) ==
    /\ Len(message) >= Len(content)
    /\ SubSeq(message, Len(message) - Len(content) + 1, Len(message)) = content

\* C6: in upload_video a host error during the upload yields a 400 whose
\* body carries the host's payload unmodified, every local failure yields a
\* 500, and none of them yields a success response.
C6_FailureTaxonomy ==
    resp.op = "upload_video" =>
        /\ HostErrorDuringUpload =>
              /\ resp.status = 400
              /\ resp.body.kind = "host_error"
              /\ EndsWith(resp.body.message, resp.inp.run.script.content)
        /\ LocalUploadFailure => (resp.status = 500 /\ resp.body.kind = "error")
        /\ (HostErrorDuringUpload \/ LocalUploadFailure) => resp.body.kind # "success"

\* The two list endpoints and the host API each pages through.
ListApi == [list_playlists |-> "playlists.list",
            list_playlist_videos |-> "playlistItems.list"]

RECURSIVE PagesConcatenated(_, _)
\* The items of pages 1..n of the host, page after page, as the handler
\* returns them.
PagesConcatenated(script, n) ==
    IF n = 0 THEN <<>>
    ELSE PagesConcatenated(script, n - 1)
            \o [j \in 1..script.counts[n] |-> [id |-> [page |-> n, index |-> j]]]

\* One request per page: the first without a token, request i with the
\* token page i - 1 carried.
OneRequestPerPage(api, script) ==
    [i \in 1..Len(script.counts) |->
        Call(api, IF i = 1 THEN <<>> ELSE NextPageToken(script, i - 1))]

\* C7: when the host answers every request, list_playlists and
\* list_playlist_videos issue exactly one request per page, each after the
\* first with the token of the page before, stop at the first page without a
\* token, and return the items of all pages in page order, with total_count
\* the number of items.
C7_PaginationAccumulates ==
    (/\ resp.op \in DOMAIN ListApi
     /\ resp.gys.result = "client"
     /\ resp.inp.script.failAt = 0) =>
        /\ resp.status = 200
        /\ resp.body.kind = "success"
        /\ HostCalls(resp.calls) = OneRequestPerPage(ListApi[resp.op], resp.inp.script)
        /\ resp.body.items =
              PagesConcatenated(resp.inp.script, Len(resp.inp.script.counts))
        /\ resp.body.total_count = Len(resp.body.items)

\* list_playlists returned the items of three pages, the middle one empty.
C7_Witness ==
    /\ resp.op = "list_playlists"
    /\ resp.status = 200
    /\ resp.inp.script.counts = <<2, 0, 2>>
    /\ Len(HostCalls(resp.calls)) = 3
    /\ resp.body.total_count = 4

\* The request of validate_upload carries a named file, and reading its size
\* does not fail.
NamedFile ==
    /\ resp.inp.req.hasFile
    /\ resp.inp.req.filename # <<>>
    /\ resp.inp.seek = "ok"

\* The file names of the model whose extension, the part after the last
\* dot in lower case, is one of the seven allowed ones.
AllowedNames ==
    {<<"a", ".", "m", "p", "4">>, <<"a", ".", "M", "P", "4">>,
     <<"a", ".", "M", "k", "v">>, <<"a", ".", "x", ".", "m", "o", "v">>,
     <<".", "w", "e", "b", "m">>}

\* C8: validate_upload answers 400 with valid=false, without temp file or
\* host call, for every file larger than the ceiling, and valid=true with
\* the size for every file with an allowed extension that is not larger.
C8_SizeCeiling ==
    (resp.op = "validate_upload" /\ NamedFile) =>
        /\ resp.inp.req.size > MAX_CONTENT_LENGTH =>
              /\ resp.status = 400
              /\ resp.body.kind = "verdict"
              /\ resp.body.valid = FALSE
              /\ resp.calls = <<>>
              /\ ~resp.tempDir /\ ~resp.tempFile
        /\ (resp.inp.req.filename \in AllowedNames
              /\ resp.inp.req.size <= MAX_CONTENT_LENGTH) =>
              /\ resp.status = 200
              /\ resp.body.kind = "verdict"
              /\ resp.body.valid = TRUE
              /\ resp.body.size = resp.inp.req.size

\* validate_upload reports valid=false and does nothing else.
RejectedUntouched ==
    /\ resp.body.kind = "verdict"
    /\ resp.body.valid = FALSE
    /\ resp.calls = <<>>
    /\ ~resp.gys.called
    /\ ~resp.tempDir /\ ~resp.tempFile

TextOrTopic ==
    /\ resp.inp.json.kind = "dict"
    /\ \/ ("text" \in resp.inp.json.data.keys /\ resp.inp.json.data.text # "")
       \/ ("topic" \in resp.inp.json.data.keys /\ resp.inp.json.data.topic # "")

\* The four language-model calls of the request all succeeded.
AllFourSucceed ==
    \A f \in {"title", "description", "tags", "category"} : resp.inp.run[f] = "ok"

ResultFields == {"title", "description", "tags", "category_id"}

\* C10: with text or topic supplied, generate_metadata answers with a success
\* response holding all four fields exactly when all four language-model
\* calls succeed, and otherwise with an error response holding none of them.
C10_AllOrNothing ==
    (resp.op = "generate_metadata" /\ TextOrTopic) =>
        IF AllFourSucceed
        THEN /\ resp.status = 200
             /\ resp.body.kind = "success"
             /\ ResultFields \subseteq DOMAIN resp.body
        ELSE /\ resp.status = 500
             /\ resp.body.kind = "error"
             /\ ResultFields \cap DOMAIN resp.body = {}

\* Title, description and tags were produced, the category call failed, and
\* the answer is an error without any of the fields.
C10_Witness ==
    /\ resp.op = "generate_metadata"
    /\ resp.inp.run.tags = "ok"
    /\ resp.inp.run.category = "fail"
    /\ Len(resp.calls) = 4
    /\ resp.status = 500
    /\ ResultFields \cap DOMAIN resp.body = {}

\* The category codes the host accepts from this program, written as text.
CategoryCodes ==
    {<<"1">>, <<"2">>, <<"1", "0">>, <<"1", "5">>, <<"1", "7">>, <<"1", "9">>,
     <<"2", "0">>, <<"2", "2">>, <<"2", "3">>, <<"2", "4">>, <<"2", "5">>,
     <<"2", "6">>, <<"2", "7">>, <<"2", "8">>}

\* The category completions of the model with the whitespace around them
\* removed, written out one by one.
TrimmedCompletion(completion) ==
    CASE completion = <<" ", "2", "7", "\n">> -> <<"2", "7">>
      [] OTHER -> completion

\* C11: in a successful generate_metadata result the category_id is the
\* trimmed category completion when that is one of the fourteen codes and
\* is 22 otherwise, so it is always one of the codes.
C11_CategoryDefaults ==
    (resp.op = "generate_metadata" /\ resp.status = 200) =>
        /\ resp.body.category_id \in CategoryCodes
        /\ resp.body.category_id =
              IF TrimmedCompletion(resp.inp.run.categoryText) \in CategoryCodes
              THEN TrimmedCompletion(resp.inp.run.categoryText)
              ELSE <<"2", "2">>

\* A completion that is no code ("99") was answered with a success holding
\* category 22.
C11_Witness ==
    /\ resp.op = "generate_metadata"
    /\ resp.status = 200
    /\ resp.inp.run.categoryText = <<"9", "9">>
    /\ resp.body.category_id = <<"2", "2">>

\* A completion that is a code once trimmed (" 27\n") was answered with it.
C11_WitnessTrimmed ==
    /\ resp.op = "generate_metadata"
    /\ resp.status = 200
    /\ resp.inp.run.categoryText = <<" ", "2", "7", "\n">>
    /\ resp.body.category_id = <<"2", "7">>

\* A clean tag: not empty, without comma, without blank at either end.
CleanTag(t) ==
    /\ t # <<>>
    /\ \A i \in 1..Len(t) : t[i] # ","
    /\ t[1] # " "
    /\ t[Len(t)] # " "

\* The clean tag lists whose comma-join is a text of the model.
CleanTagLists ==
    LET clean == {t \in TagTexts : CleanTag(t)}
    IN  UNION {SeqsOver(clean, n) : n \in 0..((MaxTagLen + 1) \div 2)}

\* C12: parsing the comma-join of a clean tag list gives that list, in the
\* same order, and parsing the comma-join of a parse result gives that
\* result again.
C12_TagsRoundTrip ==
    /\ resp.op = "parse_tags" =>
          \A tags \in CleanTagLists :
              Join(tags) = resp.inp.text => resp.body.tags = tags
    /\ resp.op = "reparse_tags" => resp.body.tags = resp.inp.first

\* The text "a,aa", the join of the clean list (a, aa), was parsed into
\* that list.
C12_Witness ==
    /\ resp.op = "parse_tags"
    /\ resp.inp.text = <<"a", ",", "a", "a">>
    /\ resp.body.tags = <<(<<"a">>), (<<"a", "a">>)>>

\* A text that is no join of a clean list (" a,,") was parsed, and its
\* result parsed again.
C12_WitnessReparsed ==
    /\ resp.op = "reparse_tags"
    /\ resp.inp.first = <<(<<"a">>)>>
    /\ resp.inp.text = <<"a">>
    /\ resp.body.tags = <<(<<"a">>)>>

\* The privacy statuses the host knows.
HostPrivacy == {"private", "public", "unlisted"}

\* C13: create_playlist sends the host a supplied privacy status unchanged
\* when it is private, public or unlisted, and "private" in place of every
\* other value, and the replacement is not reported as an error.
C13_PrivacyCoerced ==
    (resp.op = "create_playlist" /\ HostCalls(resp.calls) # <<>>) =>
        LET data == resp.inp.json.data
            sent == HostCalls(resp.calls)[1].arg[2]
        IN  /\ Len(HostCalls(resp.calls)) = 1
            /\ sent \in HostPrivacy
            /\ "privacy_status" \in data.keys =>
                  sent = IF data.privacy_status \in HostPrivacy
                         THEN data.privacy_status ELSE "private"
            /\ resp.inp.host = "ok" =>
                  /\ resp.status = 200
                  /\ resp.body.privacy_status = sent

\* A playlist asked for with privacy "weird" was created as private.
C13_Witness ==
    /\ resp.op = "create_playlist"
    /\ resp.inp.json.data.privacy_status = "weird"
    /\ resp.status = 200
    /\ HostCalls(resp.calls)[1].arg[2] = "private"

\* The number of calls the request made to the OAuth provider; they come
\* before every other call of the request.
OAuthCount == Len(OAuthCalls(resp.calls))

\* The position, among the calls of the request, of the external call that
\* failed, read from what the provider, the host and the language model did
\* in this request; 0 when no external call failed.
FailedAt ==
    CASE resp.op = "callback" /\ resp.inp.fetch = "fail" /\ resp.calls # <<>> -> 1
      [] resp.op \in ClientOps /\ OAuthCount > 0 /\ ~resp.gys.refreshed -> 1
      [] resp.op \in {"create_playlist", "add_video_to_playlist", "delete_playlist"}
            /\ resp.inp.host \in {"http_error", "other_error"} -> OAuthCount + 1
      [] resp.op \in DOMAIN ListApi /\ resp.inp.script.failAt # 0 ->
            OAuthCount + resp.inp.script.failAt
      [] resp.op = "upload_video"
            /\ resp.inp.run.script.terminal \in {"http_error", "other_error"} ->
            OAuthCount + 1 + resp.inp.run.script.progress + 1
      [] resp.op = "upload_video"
            /\ resp.inp.run.attach \in {"http_error", "other_error"} ->
            OAuthCount + 1 + resp.inp.run.script.progress + 1 + 1
      [] resp.op \in {"generate_title_only", "generate_description_only",
                      "generate_keywords"} /\ resp.inp.llm = "fail" -> 1
      [] resp.op = "generate_metadata"
            /\ \E k \in 1..4 : resp.inp.run[MetaFields[k]] = "fail" ->
            CHOOSE k \in 1..4 : resp.inp.run[MetaFields[k]] = "fail"
      [] OTHER -> 0

\* The host rejected the playlist attach call of a completed upload.
AttachRejected ==
    /\ resp.op = "upload_video"
    /\ resp.inp.run.attach = "http_error"

\* C14, as stated: when an external call fails, the handler issues no call
\* after it, the failed call included, and returns the failure in the same
\* request.
C14_NoRetryFailureReturned ==
    FailedAt # 0 =>
        /\ FailedAt = Len(resp.calls)
        /\ resp.status >= 400

\* C14, amended: when an external call fails, the handler issues no call
\* after it, the failed call included, and returns the failure in the same
\* request, except that a rejection of the playlist attach call by the host
\* is not returned: the upload is reported as a success.
C14_NoRetry ==
    FailedAt # 0 =>
        /\ FailedAt = Len(resp.calls)
        /\ IF AttachRejected THEN resp.status = 200 ELSE resp.status >= 400

\* The host failed on the second page of a listing: two requests were made
\* and the failure was returned.
C14_Witness ==
    /\ resp.op = "list_playlists"
    /\ resp.inp.script.failAt = 2
    /\ Len(HostCalls(resp.calls)) = 2
    /\ resp.status >= 400

\* C15: every handler answers every failure of one of its steps itself, with
\* a response of the 400, 401 or 500 class: no exception leaves a handler.
C15_NothingEscapes ==
    resp.op # "none" =>
        /\ ~resp.escaped
        /\ resp.status \in {200, 400, 401, 500}

\* C16: the body of a 500 response is generic: it holds none of the texts
\* the exception behind it can carry, so two runs of a request that differ
\* in that text only get the same body.
C16_GenericBody ==
    resp.status = 500 =>
        \A text \in ExceptionTexts :
            "error" \in DOMAIN resp.body => resp.body.error # text

\* The JSON body of the request is null.
NullBody == resp.inp.json.kind = "null"

\* The JSON body of the request is an object in which field k is missing,
\* null or empty.
MissingField(k) ==
    /\ resp.inp.json.kind = "dict"
    /\ \/ k \notin resp.inp.json.data.keys
       \/ resp.inp.json.data[k] \in {"", None}

TextOnlyOps == {"generate_title_only", "generate_description_only", "generate_keywords"}

\* The request is malformed or lacks a required input.
MalformedInput ==
    \/ /\ resp.op = "upload_video"
       /\ resp.inp.req.size = 0
       /\ \/ ~resp.inp.req.hasFile
          \/ resp.inp.req.filename = <<>>
          \/ resp.inp.req.filename \notin AllowedNames
    \/ /\ resp.op = "generate_metadata"
       /\ NullBody \/ (MissingField("text") /\ MissingField("topic"))
    \/ /\ resp.op \in TextOnlyOps
       /\ NullBody \/ MissingField("text")
    \/ /\ resp.op = "create_playlist"
       /\ NullBody \/ MissingField("title")
    \/ /\ resp.op = "add_video_to_playlist"
       /\ NullBody \/ MissingField("video_id")

\* C17: malformed or missing client input is answered with HTTP 400, never
\* 500, and without any external call.
C17_MalformedIs400 ==
    MalformedInput => (resp.status = 400 /\ resp.calls = <<>>)

\* The token file holds a credential that loads.
HoldsCredential(file) == file.kind = "cred"

\* C18: a logout that returns success leaves no token file, whether or not
\* there was one; and as long as no OAuth callback has succeeded since, no
\* credential appears in the file, auth_status reports authenticated=false
\* and get_youtube_service returns None.  Stated step by step: a step taken
\* without a credential in the file keeps it that way unless it is a
\* successful callback.
C18_LoggedOutUntilCallback ==
    [][/\ (resp'.op = "logout" /\ resp'.status = 200) => tokenFile' = AbsentFile
       /\ ~HoldsCredential(tokenFile) =>
             /\ resp'.op = "auth_status" => resp'.body.authenticated = FALSE
             /\ resp'.gys.called => resp'.gys.result = "none"
             /\ HoldsCredential(tokenFile') =>
                   (resp'.op = "callback" /\ resp'.status = 200)]_vars

\* A logout removed a token file that was there.
C18_Witness ==
    /\ resp.op = "logout"
    /\ resp.status = 200
    /\ resp.inp.existed
    /\ tokenFile = AbsentFile

\* A logout succeeded although there was no token file.
C18_WitnessAbsent ==
    /\ resp.op = "logout"
    /\ resp.status = 200
    /\ ~resp.inp.existed
    /\ tokenFile = AbsentFile

\* C19: when there is no token file, auth_status answers 200 with
\* authenticated=false, does not create the file and makes no call to the
\* OAuth provider.
C19_NoFileNotAuthenticated ==
    [][(resp'.op = "auth_status" /\ ~Exists(tokenFile)) =>
          /\ resp'.status = 200
          /\ resp'.body.authenticated = FALSE
          /\ resp'.calls = <<>>
          /\ tokenFile' = tokenFile]_vars

\* auth_status answered that there is no token file.
C19_Witness ==
    /\ resp.op = "auth_status"
    /\ tokenFile = AbsentFile
    /\ resp.status = 200
    /\ resp.body.authenticated = FALSE
    /\ resp.body.message = "No token file found"

\* C20: the credential in the token file is never expired without a refresh
\* token: it is valid, or it can be refreshed.
C20_NeverExpiredUnrefreshable ==
    (tokenFile.kind = "cred" /\ tokenFile.token) =>
        \/ tokenFile.expiry = <<>>
        \/ now < tokenFile.expiry[1]
        \/ tokenFile.refresh

\* C21: the health endpoint can be asked in every state of the system, and
\* answers 200 with status 'healthy' without loading the token file, without
\* changing it and without any external call.
C21_AlwaysHealthy ==
    /\ [](WorkerFree => ENABLED HealthCheck)
    /\ [][resp'.op = "health" =>
             /\ resp'.status = 200
             /\ resp'.body.status = "healthy"
             /\ resp'.calls = <<>>
             /\ ~resp'.gys.called
             /\ tokenFile' = tokenFile]_vars

\* The health endpoint answered while the stored credential was expired.
C21_Witness ==
    /\ resp.op = "health"
    /\ resp.status = 200
    /\ tokenFile.kind = "cred"
    /\ Expired(tokenFile, now)

\* The health endpoint answered while there was no token file.
C21_WitnessAbsent ==
    /\ resp.op = "health"
    /\ resp.status = 200
    /\ tokenFile = AbsentFile

\* ---- C22 ----------------------------------------------------------------
\* The workers that are inside get_youtube_service
Clients == {w \in Workers : inflight[w].op = "client"}

\* Worker w found an expired, refreshable credential in the file and went on
\* to the refresh.
LoadedExpired(w) ==
    /\ w \in Clients
    /\ inflight[w].read.kind = "cred"
    /\ inflight[w].read.refresh
    /\ inflight[w].pc \in {"refresh", "write"} \/ inflight[w].refreshed

\* Workers v and w found the same expired, refreshable credential in the file.
SameExpiredRead(v, w) ==
    /\ v # w
    /\ LoadedExpired(v) /\ LoadedExpired(w)
    /\ inflight[v].read = inflight[w].read

\* C22: the token file has no lock.  No step of get_youtube_service waits
\* for another request: the load, the refresh and the save of a worker can
\* each be taken wherever the other worker stands.  Two requests that load
\* the same expired refreshable credential and both come back with a client
\* have both refreshed and both written the file, and the file holds the
\* credential of the later writer only: the earlier write is lost.
C22_UnlockedRefresh ==
    /\ [](\A w \in Workers :
            /\ inflight[w].pc = "start" => ENABLED GysLoad(w)
            /\ inflight[w].pc = "refresh" => ENABLED GysRefresh(w)
            /\ inflight[w].pc = "write" => ENABLED GysWrite(w))
    /\ [](\A v, w \in Workers :
            (/\ SameExpiredRead(v, w)
             /\ inflight[v].result = "client"
             /\ inflight[w].result = "client"
             /\ inflight[v].at < inflight[w].at)
            => /\ inflight[v].refreshed /\ inflight[w].refreshed
               /\ inflight[v].wrote /\ inflight[w].wrote
               /\ tokenFile = inflight[w].creds
               /\ tokenFile # inflight[v].creds)

\* Both workers loaded the same expired credential, both refreshed and both
\* wrote; the file holds the second write and the first is lost.
C22_Witness ==
    /\ SameExpiredRead("w1", "w2")
    /\ inflight["w1"].wrote /\ inflight["w2"].wrote
    /\ inflight["w1"].at = 1 /\ inflight["w2"].at = 2
    /\ tokenFile = inflight["w2"].creds
    /\ tokenFile # inflight["w1"].creds

\* ---- C27 ----------------------------------------------------------------
\* Worker v logged out with success: it removed the token file, or found none.
LoggedOut(v) ==
    /\ inflight[v].op = "logout"
    /\ inflight[v].pc = "done"
    /\ inflight[v].result = "ok"

\* C27: a get_youtube_service call that holds a refreshed credential is not
\* stopped by a logout that ran meanwhile.  At its save it can always write,
\* also when the file is gone; a save that succeeds puts its credential in
\* the file, so that the file exists again although the logout succeeded
\* and no callback ran (the session holds no oauth_state in any of this).
C27_WriteAfterLogout ==
    /\ [](\A w \in Workers :
            (inflight[w].pc = "write" /\ ~Exists(tokenFile))
            => ENABLED (GysWrite(w) /\ inflight'[w].wrote /\ Exists(tokenFile')))
    /\ [][\A w \in Workers :
            (inflight[w].pc = "write" /\ inflight'[w].wrote)
            => /\ Exists(tokenFile')
               /\ tokenFile' = inflight[w].creds
               /\ session' = FALSE]_vars

\* The logout removed the file first, the save of the request that had
\* loaded the credential before came second, and the file exists.
C27_Witness ==
    /\ LoggedOut("w1")
    /\ inflight["w1"].at = 1
    /\ LoadedExpired("w2")
    /\ inflight["w2"].wrote
    /\ inflight["w2"].at = 2
    /\ tokenFile = inflight["w2"].creds

\* ---- C23 ----------------------------------------------------------------
\* The handlers that never touch the token file
FileBlindOps == {"auth_status", "login", "health", "validate_upload",
                 "generate_metadata"} \cup TextOnlyOps

\* C23: the token file changes only in a callback that succeeds (a
\* credential is written), in a get_youtube_service whose refresh exchange
\* succeeded (the refreshed credential is saved), and in a logout (the file
\* is removed).  Every other step leaves it as it is: auth_status, login,
\* health, validate_upload, the metadata endpoints, get_youtube_service on
\* a valid credential and get_youtube_service when the exchange fails.
C23_TokenFileFrame ==
    [][/\ tokenFile' # tokenFile =>
            \/ resp'.op = "callback" /\ resp'.status = 200 /\ tokenFile'.kind = "cred"
            \/ resp'.gys.called /\ resp'.gys.refreshed
            \/ resp'.op = "logout" /\ tokenFile' = AbsentFile
       /\ resp'.op \in FileBlindOps => tokenFile' = tokenFile
       /\ (resp'.gys.called /\ ~resp'.gys.refreshed) => tokenFile' = tokenFile]_vars

\* ---- C24 ----------------------------------------------------------------
\* C24: an upload creates one resumable insert request and no second one;
\* next_chunk is called only while the loop has no response yet, one call
\* at a time, so that no chunk call follows the terminal response or a
\* raise; and when the host does not go on for ever answering "no response
\* yet", every upload that entered the loop returns an answer.
C24_OneSessionUntilTerminal ==
    /\ [](\A w \in Workers :
            /\ inflight[w].sessions <= 1
            /\ inflight[w].pc \in {"loop", "attach"} => inflight[w].sessions = 1
            /\ inflight[w].chunks > 0 => inflight[w].sessions = 1
            /\ inflight[w].pc = "loop" => inflight[w].response = "none"
            /\ inflight[w].pc = "attach" => inflight[w].response = "video"
            /\ inflight[w].response # "none" => inflight[w].pc # "loop")
    /\ [][\A w \in Workers :
            inflight'[w].chunks # inflight[w].chunks
            => /\ inflight[w].pc = "loop"
               /\ inflight[w].response = "none"
               /\ inflight'[w].chunks = inflight[w].chunks + 1]_vars
    /\ \A w \in Workers :
            (inflight[w].pc = "loop") ~> (inflight[w].pc = "returned" /\ inflight[w].status # 0)

\* An upload got its terminal response after MaxChunks calls without one,
\* and returned 200 with one session and MaxChunks + 1 chunk calls.
C24_Witness ==
    /\ inflight["w1"].pc = "returned"
    /\ inflight["w1"].status = 200
    /\ inflight["w1"].response = "video"
    /\ inflight["w1"].sessions = 1
    /\ inflight["w1"].chunks = MaxChunks + 1

\* ---- C25 ----------------------------------------------------------------
\* The positions of the calls named `name` among the calls of the response
CallsNamed(name) == {i \in 1..Len(resp.calls) : resp.calls[i].api = name}

\* C25: an upload request issues the playlist attach call at most once.  It
\* issues it only after the terminal response of the upload, as the call
\* that follows the last chunk call, and only when playlist_id is given and
\* not empty.  When the upload fails or playlist_id is missing or empty, no
\* attach call is issued.
C25_AttachOnceAfterSuccess ==
    resp.op = "upload_video" =>
        LET attach == CallsNamed("playlistItems.insert")
            chunks == CallsNamed("videos.insert.next_chunk")
        IN  /\ Cardinality(attach) <= 1
            /\ attach # {} =>
                  /\ resp.inp.run.script.terminal = "done"
                  /\ resp.inp.form.playlist_id \notin {None, ""}
                  /\ resp.calls[Len(resp.calls)].arg[1] = resp.inp.form.playlist_id
                  /\ chunks # {}
                  /\ \A i \in attach, k \in chunks : k < i
                  /\ attach = {Len(resp.calls)}
            /\ resp.inp.run.script.terminal # "done" => attach = {}
            /\ resp.inp.form.playlist_id \in {None, ""} => attach = {}
            /\ resp.status \in {400, 401} => attach = {}

\* The upload succeeded after a chunk call without a response, and the
\* attach call followed the terminal response.
C25_Witness ==
    /\ resp.op = "upload_video"
    /\ resp.status = 200
    /\ resp.inp.run.script.progress = 1
    /\ resp.inp.form.playlist_id = "PL1"
    /\ Cardinality(CallsNamed("playlistItems.insert")) = 1

\* An upload with an empty playlist_id succeeded and no attach call was made.
C25_WitnessEmpty ==
    /\ resp.op = "upload_video"
    /\ resp.status = 200
    /\ resp.inp.form.playlist_id = ""
    /\ CallsNamed("playlistItems.insert") = {}

\* ---- C26 ----------------------------------------------------------------
\* C26: oauth_state enters the session through login only.  A callback
\* changes the token file only when the session holds oauth_state and the
\* token exchange succeeded; without oauth_state it answers 400, makes no
\* exchange and leaves the file alone.  A callback that succeeds has written
\* the credential and removed oauth_state, so that the next callback of the
\* session, with no login in between, is answered 400.
C26_CallbackNeedsLogin ==
    [][/\ (session' /\ ~session) => (resp'.op = "login" /\ resp'.status = 200)
       /\ resp'.op = "callback" =>
            /\ tokenFile' # tokenFile => (session /\ resp'.inp.fetch = "ok")
            /\ ~session => /\ resp'.status = 400
                           /\ resp'.calls = <<>>
                           /\ tokenFile' = tokenFile
                           /\ ~session'
            /\ resp'.status = 200 => /\ session
                                     /\ resp'.inp.fetch = "ok"
                                     /\ tokenFile'.kind = "cred"
                                     /\ ~session'
            /\ resp'.status = 500 => session' = session]_vars

\* A callback succeeded after a login: the credential is in the file and
\* oauth_state is gone.
C26_Witness ==
    /\ resp.op = "callback"
    /\ resp.status = 200
    /\ tokenFile.kind = "cred"
    /\ ~session

\* A callback was answered 400 while the file holds a credential that only a
\* callback of this run can have written (it expires after those a
\* deployment starts with, and carries no refresh token): the second
\* callback of the session.
C26_WitnessSecond ==
    /\ resp.op = "callback"
    /\ resp.status = 400
    /\ ~session
    /\ tokenFile = CredFile(TRUE, <<2>>, FALSE)

\* ---- C28 ----------------------------------------------------------------
\* The environments in which the exchange, the save and the build succeed
KindEnvs == {env \in GysEnvs : env.refresh = "ok" /\ env.write = "ok" /\ env.build = "ok"}

\* C28: auth_status answers authenticated=true exactly when the token file
\* loads and holds a token that has not expired.  It makes no call to the
\* OAuth provider and leaves the file as it is.  For an expired credential
\* with a refresh token it answers 200 with authenticated=false, while
\* get_youtube_service in the same state starts the exchange and, when the
\* exchange, the save and the build succeed, returns the client handle.
C28_StatusNeverRefreshes ==
    [][resp'.op = "auth_status" =>
          /\ resp'.body.authenticated =
                (/\ tokenFile.kind = "cred"
                 /\ tokenFile.token
                 /\ (tokenFile.expiry = <<>> \/ now < tokenFile.expiry[1]))
          /\ resp'.calls = <<>>
          /\ ~resp'.gys.called
          /\ tokenFile' = tokenFile
          /\ (/\ tokenFile.kind = "cred"
              /\ tokenFile.refresh
              /\ tokenFile.expiry # <<>>
              /\ now >= tokenFile.expiry[1])
             => /\ resp'.status = 200
                /\ resp'.body.authenticated = FALSE
                /\ \A env \in GysEnvs :
                      get_youtube_service(tokenFile, now, env).calls
                          = <<Call("oauth.refresh", <<>>)>>
                /\ \A env \in KindEnvs :
                      LET g == get_youtube_service(tokenFile, now, env) IN
                      /\ g.result = "client"
                      /\ g.gys.refreshed
                      /\ Valid(g.file, now)]_vars

\* auth_status answered "not authenticated" on an expired credential that
\* get_youtube_service would refresh.
C28_Witness ==
    /\ resp.op = "auth_status"
    /\ resp.status = 200
    /\ resp.body.authenticated = FALSE
    /\ Loaded(tokenFile, now) = "expired_refreshable"

\* auth_status answered "authenticated" on a valid credential.
C28_WitnessValid ==
    /\ resp.op = "auth_status"
    /\ resp.body.authenticated = TRUE
    /\ Loaded(tokenFile, now) = "valid"

\* ---- C29 ----------------------------------------------------------------
\* Request r of upload_video, create_playlist or add_video_to_playlist is
\* invalid: the file is missing, unnamed or of a type that is not allowed,
\* or the body is not a JSON object with the required field.
InvalidRequest(r) ==
    \/ /\ r.op = "upload_video"
       /\ \/ ~r.inp.req.hasFile
          \/ r.inp.req.filename = <<>>
          \/ r.inp.req.filename \notin AllowedNames
    \/ /\ r.op = "create_playlist"
       /\ \/ r.inp.json.kind # "dict"
          \/ "title" \notin r.inp.json.data.keys
          \/ r.inp.json.data.title \in {"", None}
    \/ /\ r.op = "add_video_to_playlist"
       /\ \/ r.inp.json.kind # "dict"
          \/ "video_id" \notin r.inp.json.data.keys
          \/ r.inp.json.data.video_id \in {"", None}

\* The request was dealt with before get_youtube_service: no credential was
\* loaded or refreshed, no call went out, and the token file is as it was.
BeforeAuthentication ==
    /\ ~resp'.gys.called
    /\ resp'.calls = <<>>
    /\ tokenFile' = tokenFile

\* C29: in upload_video, create_playlist and add_video_to_playlist the
\* checks of the input come before the authentication: an invalid request
\* is answered 400 whatever the token file holds, and no credential is
\* loaded or refreshed and the token file is not written.  In upload_video
\* the authentication comes before the temp directory: a request answered
\* 401 leaves no temp file and no temp directory.
C29_ChecksBeforeEffects ==
    [][/\ InvalidRequest(resp') => (resp'.status = 400 /\ BeforeAuthentication)
       /\ (resp'.op = "upload_video" /\ resp'.status = 401) =>
             (~resp'.tempDir /\ ~resp'.tempFile)]_vars

\* The order alone: an invalid request never reaches get_youtube_service,
\* and an upload answered 401 has no temp file or directory.
C29_OrderOfChecks ==
    [][/\ InvalidRequest(resp') => (resp'.status \in {400, 500} /\ BeforeAuthentication)
       /\ (resp'.op = "upload_video" /\ resp'.status = 401) =>
             (~resp'.tempDir /\ ~resp'.tempFile)]_vars

====
